---- MODULE Spec2Model ----
(***************************************************************************)
(* A model of findig: the request context of App (build_context, the      *)
(* ExitStack, cleanup hooks, App.__call__), the ErrorHandler / Formatter / *)
(* Parser registries of findig.content, Resource and Collection request   *)
(* handling, and data-model composition.                                   *)
(***************************************************************************)
EXTENDS Naturals, Integers, Sequences, FiniteSets, TLC

(***************************************************************************)
(* Bounds of the model.                                                    *)
(***************************************************************************)
MaxContextHooks == 2
MaxCleanupHooks == 2
MaxErrRegs == 1
MaxRequests == 1

MaxHandlers == 3

MaxAccept == 2

(***************************************************************************)
(* State.  Each part of the program has its variables and a specification  *)
(* of its own; the other parts' variables do not change under it.          *)
(***************************************************************************)
VARIABLES
    context_hooks, cleanup_hooks, app_eh, err_regs, requests, th,
    resource, handled,
    eh_handlers, eh_best,
    formatter, resolved,
    parser, parsed,
    model_a, model_b, composite,
    fmt_first, fmt_second, new_formatter,
    objects, resources, routes, endpoints, built,
    serving, storage, url_map, served, reg_writes,
    people, cur_view, lazy_rec, ds_last,
    ctr_logs, ctr_callbacks, ctr_hits

appVars == <<context_hooks, cleanup_hooks, app_eh, err_regs, requests, th>>

resVars == <<resource, handled>>

ehVars == <<eh_handlers, eh_best>>

fmtVars == <<formatter, resolved>>

parVars == <<parser, parsed>>

dmVars == <<model_a, model_b, composite>>

cmpVars == <<fmt_first, fmt_second, new_formatter>>

regVars == <<objects, resources, routes, endpoints, built>>

srvVars == <<serving, storage, url_map, served, reg_writes>>

dsVars == <<people, cur_view, lazy_rec, ds_last>>

ctrVars == <<ctr_logs, ctr_callbacks, ctr_hits>>

vars == <<appVars, resVars, ehVars, fmtVars, parVars, dmVars, cmpVars, regVars,
          srvVars, dsVars, ctrVars>>

(***************************************************************************)
(* Exception types and their base classes (Python's issubclass).           *)
(***************************************************************************)
ExcTypes ==
    {"BaseException", "Exception", "HTTPException", "BadRequest", "NotFound",
     "MethodNotAllowed", "NotAcceptable", "UnsupportedMediaType",
     "LookupError", "KeyError", "BadRequestKeyError", "CustomError",
     "HandlerError", "TeardownError", "AttributeError", "TypeError",
     "ValueError", "NameError"}

Bases(ty) ==
    CASE ty = "BaseException" -> {}
      [] ty = "Exception" -> {"BaseException"}
      [] ty \in {"BadRequest", "NotFound", "MethodNotAllowed", "NotAcceptable",
                 "UnsupportedMediaType"} -> {"HTTPException"}
      [] ty = "KeyError" -> {"LookupError"}
      [] ty = "BadRequestKeyError" -> {"BadRequest", "KeyError"}
      [] OTHER -> {"Exception"}

RECURSIVE Ancestors(_)
Ancestors(ty) ==
    {ty} \cup UNION {Ancestors(b) : b \in Bases(ty)}

issubclass(sub, sup) == sup \in Ancestors(sub)

(***************************************************************************)
(* Registries are insertion-ordered dicts: a sequence of [key, h] with     *)
(* distinct keys.  Setting an existing key keeps its position.             *)
(***************************************************************************)
Keys(handlers) == {handlers[i].key : i \in 1..Len(handlers)}

IndexOf(handlers, k) == CHOOSE i \in 1..Len(handlers) : handlers[i].key = k

Lookup(handlers, k) == handlers[IndexOf(handlers, k)].h

DictSet(handlers, k, h) ==
    IF k \in Keys(handlers)
    THEN [handlers EXCEPT ![IndexOf(handlers, k)] = [key |-> k, h |-> h]]
    ELSE Append(handlers, [key |-> k, h |-> h])

(***************************************************************************)
(* ErrorHandler.choose_best_handler: the type of the handler chosen for an *)
(* error of type err_type, scanning the handlers in insertion order.       *)
(***************************************************************************)
\* A plausible slip: the first applicable handler wins, specific or not.
RECURSIVE BestHTypeFirstMatch(_, _, _, _)
BestHTypeFirstMatch(handlers, err_type, i, best_htype) ==
    IF i > Len(handlers) THEN best_htype
    ELSE IF issubclass(err_type, handlers[i].key) THEN handlers[i].key
    ELSE BestHTypeFirstMatch(handlers, err_type, i + 1, best_htype)

RECURSIVE BestHType(_, _, _, _)
BestHType(handlers, err_type, i, best_htype) ==
    IF i > Len(handlers) THEN best_htype
    ELSE LET htype == handlers[i].key
         IN  IF issubclass(err_type, htype) /\ issubclass(htype, best_htype)
             THEN BestHType(handlers, err_type, i + 1, htype)
             ELSE BestHType(handlers, err_type, i + 1, best_htype)

NoHandler == "no_handler"

\* The handler chosen, or NoHandler when the error is re-raised.
ErrorHandler_choose_best_handler(handlers, err_type) ==
    LET best_htype == BestHType(handlers, err_type, 1, "BaseException")
    IN  IF best_htype \in Keys(handlers)
        THEN [htype |-> best_htype, h |-> Lookup(handlers, best_htype)]
        ELSE [htype |-> NoHandler, h |-> NoHandler]

(***************************************************************************)
(* The request context of App.                                             *)
(*   context_hooks  App.context_hooks: the registered context managers     *)
(*   cleanup_hooks  App.cleanup_hooks: the registered cleanup hooks        *)
(*   app_eh         App.error_handler.handlers                             *)
(*   err_regs       number of application-made error handler registrations *)
(*   requests       number of requests started                             *)
(*   th             per handling thread: where it is in App.__call__ (or   *)
(*                  in a `with app.build_context(environ)` block), its     *)
(*                  thread-local ctx, its ExitStack and what it has seen   *)
(***************************************************************************)
Threads == {1}

\* A context manager is a generator function.  For a given request its code
\* before the yield raises, or yields a value or None (SetupOutcomes); its
\* code after the yield returns or raises (TeardownOutcomes), and sits in a
\* finally block or not.
SetupOutcomes == {"value", "none", "raise"}

TeardownOutcomes == {"ok", "raise"}

NoExc == [type |-> "none", origin |-> <<"none", 0>>]

Exc(ty, name, i) == [type |-> ty, origin |-> <<name, i>>]

Unbound == [status |-> 0, by |-> "unbound"]

Resp(status, by) == [status |-> status, by |-> by]

CtxKey(name) == <<name, 0>>

\* ExitStack entry of the callback pushed by context.callback(self.__cleanup)
CleanupCallback == 0

\* A slip: the dispatcher's error handler without the BaseException entry.
DefaultErrorHandlers_NoCatchAll ==
    <<[key |-> "HTTPException", h |-> "_handle_http_exception"]>>

\* Dispatcher.__init__: the default error handlers.
DefaultErrorHandlers ==
    <<[key |-> "BaseException", h |-> "_handle_exception"],
      [key |-> "HTTPException", h |-> "_handle_http_exception"]>>

StatusOf(ty) ==
    CASE ty = "NotFound" -> 404
      [] ty = "MethodNotAllowed" -> 405
      [] ty = "NotAcceptable" -> 406
      [] ty = "UnsupportedMediaType" -> 415
      [] ty \in {"BadRequest", "BadRequestKeyError"} -> 400
      [] OTHER -> 500

\* ErrorHandler.__call__ with the handlers an application can register:
\* what the chosen handler returns or raises, given the ctx keys it can read.
ErrorHandler_call(handlers, err, ctxkeys) ==
    LET chosen == ErrorHandler_choose_best_handler(handlers, err.type)
    IN  CASE chosen.h = NoHandler ->
               [raised |-> err, response |-> Unbound]
          [] chosen.h = "_handle_exception" ->
               [raised |-> NoExc, response |-> Resp(500, "_handle_exception")]
          [] chosen.h = "_handle_http_exception" ->
               IF CtxKey("request") \in ctxkeys
               THEN [raised |-> NoExc,
                     response |-> Resp(StatusOf(err.type), "_handle_http_exception")]
               ELSE [raised |-> Exc("AttributeError", "handler", 0),
                     response |-> Unbound]
          [] chosen.h = "custom_raise" ->
               [raised |-> Exc("HandlerError", "handler", 0), response |-> Unbound]
          [] OTHER ->
               [raised |-> NoExc, response |-> Resp(200, chosen.h)]

InitThread ==
    [pc |-> "idle", mode |-> "wsgi", ctx |-> {}, stack |-> <<>>,
     built |-> FALSE, idx |-> 0, exc |-> NoExc, response |-> Unbound,
     hook_runs |-> <<>>, setup_ran |-> <<>>, teardown_ran |-> <<>>,
     exit_calls |-> <<>>, hook_ctx |-> {},
     setup_failed |-> 0, eh_calls |-> <<>>, returned |-> Unbound,
     propagated |-> NoExc, hooks_at_start |-> 0, cm_values |-> {}]

InitAppVars ==
    /\ context_hooks = <<>>
    /\ cleanup_hooks = <<>>
    /\ app_eh = DefaultErrorHandlers
    /\ err_regs = 0
    /\ requests = 0
    /\ th = [t \in Threads |-> InitThread]

Starting == requests = 0 /\ \A t \in Threads : th[t].pc = "idle"

\* App.context
App_context ==
    /\ Starting
    /\ Len(context_hooks) < MaxContextHooks
    /\ context_hooks' = Append(context_hooks, Len(context_hooks) + 1)
    /\ UNCHANGED <<cleanup_hooks, app_eh, err_regs, requests, th>>
    /\ UNCHANGED <<resVars, ehVars, fmtVars, parVars, dmVars, cmpVars, regVars, srvVars, dsVars, ctrVars>>

\* App.cleanup_hook, at start-up
App_cleanup_hook ==
    /\ Starting
    /\ Len(cleanup_hooks) < MaxCleanupHooks
    /\ cleanup_hooks' = Append(cleanup_hooks, Len(cleanup_hooks) + 1)
    /\ th' = [t \in Threads |-> [th[t] EXCEPT !.hook_runs = Append(@, 0)]]
    /\ UNCHANGED <<context_hooks, app_eh, err_regs, requests>>
    /\ UNCHANGED <<resVars, ehVars, fmtVars, parVars, dmVars, cmpVars, regVars, srvVars, dsVars, ctrVars>>

\* app.error_handler.register(err_type, handler)
App_error_handler_register(err_type, h) ==
    /\ Starting
    /\ err_regs < MaxErrRegs
    /\ err_regs' = err_regs + 1
    /\ app_eh' = DictSet(app_eh, err_type, h)
    /\ UNCHANGED <<context_hooks, cleanup_hooks, requests, th>>
    /\ UNCHANGED <<resVars, ehVars, fmtVars, parVars, dmVars, cmpVars, regVars, srvVars, dsVars, ctrVars>>

\* A request arrives at App.__call__ (mode "wsgi"), or a caller opens
\* `with app.build_context(environ):` itself (mode "with").
Call_Start(t, m, routed) ==
    /\ th[t].pc \in {"idle", "done"}
    /\ requests < MaxRequests
    /\ requests' = requests + 1
    /\ th' = [th EXCEPT ![t] =
                 [InitThread EXCEPT
                    !.pc = IF routed THEN "build" ELSE "build_nomatch",
                    !.mode = m,
                    !.ctx = th[t].ctx,
                    !.hooks_at_start = Len(cleanup_hooks),
                    !.hook_runs = [i \in 1..Len(cleanup_hooks) |-> 0]]]
    /\ UNCHANGED <<context_hooks, cleanup_hooks, app_eh, err_regs>>
    /\ UNCHANGED <<resVars, ehVars, fmtVars, parVars, dmVars, cmpVars, regVars, srvVars, dsVars, ctrVars>>

\* Where an exception that leaves build_context or the with block goes:
\* App.__call__'s except clause, or the caller of the with block.
Raise(r, e) ==
    IF r.mode = "wsgi"
    THEN [r EXCEPT !.pc = "except", !.exc = e]
    ELSE [r EXCEPT !.pc = "done", !.exc = NoExc, !.propagated = e]

\* build_context up to the ExitStack, for a request no rule matches:
\* adapter.match raises NotFound.
BuildContext_NoMatch(t) ==
    /\ th[t].pc = "build_nomatch"
    /\ th' = [th EXCEPT ![t] =
                 Raise([@ EXCEPT !.ctx = @ \cup {CtxKey("app"), CtxKey("url_adapter"),
                                               CtxKey("request")}],
                       Exc("NotFound", "match", 0))]
    /\ UNCHANGED <<context_hooks, cleanup_hooks, app_eh, err_regs, requests>>
    /\ UNCHANGED <<resVars, ehVars, fmtVars, parVars, dmVars, cmpVars, regVars, srvVars, dsVars, ctrVars>>

\* build_context up to the ExitStack and its cleanup callback.
BuildContext_Match(t) ==
    /\ th[t].pc = "build"
    /\ th' = [th EXCEPT ![t] =
                 [@ EXCEPT !.ctx = @ \cup {CtxKey("app"), CtxKey("url_adapter"),
                                          CtxKey("request"), CtxKey("url_values"),
                                          CtxKey("dispatcher"), CtxKey("resource")},
                           !.stack = <<CleanupCallback>>,
                           !.idx = 1,
                           !.pc = "enter"]]
    /\ UNCHANGED <<context_hooks, cleanup_hooks, app_eh, err_regs, requests>>
    /\ UNCHANGED <<resVars, ehVars, fmtVars, parVars, dmVars, cmpVars, regVars, srvVars, dsVars, ctrVars>>

\* A slip: a context manager that raises is skipped and the loop goes on.
BuildContext_Enter_Swallow(r, setup) ==
    IF r.idx > Len(context_hooks)
    THEN [r EXCEPT !.built = TRUE, !.pc = "body"]
    ELSE LET ran == [r EXCEPT !.setup_ran = Append(@, r.idx)]
         IN  IF setup = "raise"
             THEN [ran EXCEPT !.setup_failed = r.idx, !.idx = @ + 1]
             ELSE [ran EXCEPT !.stack = Append(@, r.idx),
                              !.idx = @ + 1,
                              !.cm_values = IF setup = "value"
                                            THEN @ \cup {r.idx} ELSE @,
                              !.ctx = IF setup = "value"
                                      THEN @ \cup {<<"cm", r.idx>>} ELSE @]

\* One turn of `for hook in self.context_hooks`, or the return of the stack.
\* An exception in enter_context leaves build_context: the ExitStack is
\* dropped without having been entered or closed.
BuildContext_Enter(r, setup) ==
    IF r.idx > Len(context_hooks)
    THEN [r EXCEPT !.built = TRUE, !.pc = "body"]
    ELSE LET ran == [r EXCEPT !.setup_ran = Append(@, r.idx)]
         IN  IF setup = "raise"
             THEN Raise([ran EXCEPT !.setup_failed = r.idx, !.stack = <<>>],
                        Exc("CustomError", "cm", r.idx))
             ELSE [ran EXCEPT !.stack = Append(@, r.idx),
                              !.idx = @ + 1,
                              !.cm_values = IF setup = "value"
                                            THEN @ \cup {r.idx} ELSE @,
                              !.ctx = IF setup = "value"
                                      THEN @ \cup {<<"cm", r.idx>>} ELSE @]

BuildContext_EnterStep(t, setup) ==
    /\ th[t].pc = "enter"
    /\ th' = [th EXCEPT ![t] = BuildContext_Enter(@, setup)]
    /\ UNCHANGED <<context_hooks, cleanup_hooks, app_eh, err_regs, requests>>
    /\ UNCHANGED <<resVars, ehVars, fmtVars, parVars, dmVars, cmpVars, regVars, srvVars, dsVars, ctrVars>>

\* app.cleanup_hook(func) called while the request context is open.
Body_cleanup_hook(t) ==
    /\ th[t].pc = "body"
    /\ Len(cleanup_hooks) < MaxCleanupHooks
    /\ cleanup_hooks' = Append(cleanup_hooks, Len(cleanup_hooks) + 1)
    /\ th' = [u \in Threads |-> [th[u] EXCEPT !.hook_runs = Append(@, 0)]]
    /\ UNCHANGED <<context_hooks, app_eh, err_regs, requests>>
    /\ UNCHANGED <<resVars, ehVars, fmtVars, parVars, dmVars, cmpVars, regVars, srvVars, dsVars, ctrVars>>

\* Code running in the request context stores a value of its own on ctx.
Body_SetCtx(t) ==
    /\ th[t].pc = "body"
    /\ CtxKey("user") \notin th[t].ctx
    /\ th' = [th EXCEPT ![t].ctx = @ \cup {CtxKey("user")}]
    /\ UNCHANGED <<context_hooks, cleanup_hooks, app_eh, err_regs, requests>>
    /\ UNCHANGED <<resVars, ehVars, fmtVars, parVars, dmVars, cmpVars, regVars, srvVars, dsVars, ctrVars>>

\* The body of a caller's own `with app.build_context(environ):` block ends,
\* normally or by raising.
Body_With(t, raises) ==
    /\ th[t].pc = "body"
    /\ th[t].mode = "with"
    /\ th' = [th EXCEPT ![t] =
                 [@ EXCEPT !.pc = "exit",
                           !.exc = IF raises THEN Exc("ValueError", "body", 0)
                                   ELSE NoExc]]
    /\ UNCHANGED <<context_hooks, cleanup_hooks, app_eh, err_regs, requests>>
    /\ UNCHANGED <<resVars, ehVars, fmtVars, parVars, dmVars, cmpVars, regVars, srvVars, dsVars, ctrVars>>

\* What the pipeline inside Dispatcher.dispatch's try block can raise.
DispatchErrors == {"NotFound", "CustomError"}

\* Dispatcher.dispatch up to the end of its try block: ctx.response is set,
\* and the resource, the post-processors and the formatter give a response
\* or raise.
Dispatch(t, outcome) ==
    /\ th[t].pc = "body"
    /\ th[t].mode = "wsgi"
    /\ th' = [th EXCEPT ![t] =
                 IF outcome = "ok"
                 THEN [@ EXCEPT !.ctx = @ \cup {CtxKey("response")},
                                !.response = Resp(200, "dispatch"),
                                !.pc = "exit"]
                 ELSE [@ EXCEPT !.ctx = @ \cup {CtxKey("response")},
                                !.exc = Exc(outcome, "dispatch", 0),
                                !.pc = "dispatch_except"]]
    /\ UNCHANGED <<context_hooks, cleanup_hooks, app_eh, err_regs, requests>>
    /\ UNCHANGED <<resVars, ehVars, fmtVars, parVars, dmVars, cmpVars, regVars, srvVars, dsVars, ctrVars>>

\* Dispatcher.dispatch, `except BaseException as err: return
\* self.error_handler(err)`: the handler's response is dispatch's result, and
\* what the handler raises leaves dispatch and the with block.
Dispatch_Except(t) ==
    /\ th[t].pc = "dispatch_except"
    /\ LET r == th[t]
           res == ErrorHandler_call(app_eh, r.exc, r.ctx)
       IN  th' = [th EXCEPT ![t] =
                     [r EXCEPT !.eh_calls = Append(@, r.exc),
                               !.exc = res.raised,
                               !.response = res.response,
                               !.pc = "exit"]]
    /\ UNCHANGED <<context_hooks, cleanup_hooks, app_eh, err_regs, requests>>
    /\ UNCHANGED <<resVars, ehVars, fmtVars, parVars, dmVars, cmpVars, regVars, srvVars, dsVars, ctrVars>>

\* What build_context stores on ctx for a request that a rule matches.
BuildKeys ==
    {CtxKey("app"), CtxKey("url_adapter"), CtxKey("request"),
     CtxKey("url_values"), CtxKey("dispatcher"), CtxKey("resource")}

\* Whether the values of the request are on ctx: those that build_context
\* stored and those that the context managers yielded.
Readable(r) ==
    /\ BuildKeys \subseteq r.ctx
    /\ \A c \in r.cm_values : <<"cm", c>> \in r.ctx

\* A slip: the context managers are left in the order they were entered.
Exit_Teardown_FIFO(r, td, fin) ==
    LET i == r.stack[2]
        runs == r.exc = NoExc \/ fin
        popped == [r EXCEPT !.stack = <<Head(@)>> \o SubSeq(@, 3, Len(@)),
                            !.exit_calls = Append(@,
                                [cm |-> i, ran |-> runs,
                                 skipped |-> r.exc = NoExc /\ ~runs,
                                 readable |-> Readable(r)])]
    IN  IF runs
        THEN [popped EXCEPT !.teardown_ran = Append(@, i),
                            !.exc = IF td = "raise"
                                    THEN Exc("TeardownError", "teardown", i)
                                    ELSE @]
        ELSE popped

\* _GeneratorContextManager.__exit__ of context manager i, called by
\* ExitStack.__exit__ with the exception in flight: without one the code
\* after the yield runs; with one it is thrown in at the yield, and only
\* code in a finally block runs.  What that code raises replaces the
\* exception in flight.
Exit_Teardown(r, td, fin) ==
    LET i == r.stack[Len(r.stack)]
        runs == r.exc = NoExc \/ fin
        popped == [r EXCEPT !.stack = SubSeq(@, 1, Len(@) - 1),
                            !.exit_calls = Append(@,
                                [cm |-> i, ran |-> runs,
                                 skipped |-> r.exc = NoExc /\ ~runs,
                                 readable |-> Readable(r)])]
    IN  IF runs
        THEN [popped EXCEPT !.teardown_ran = Append(@, i),
                            !.exc = IF td = "raise"
                                    THEN Exc("TeardownError", "teardown", i)
                                    ELSE @]
        ELSE popped

Exit_TeardownStep(t, td, fin) ==
    /\ th[t].pc = "exit"
    /\ th[t].stack # <<>>
    /\ th[t].stack[Len(th[t].stack)] # CleanupCallback
    /\ th' = [th EXCEPT ![t] = Exit_Teardown(@, td, fin)]
    /\ UNCHANGED <<context_hooks, cleanup_hooks, app_eh, err_regs, requests>>
    /\ UNCHANGED <<resVars, ehVars, fmtVars, parVars, dmVars, cmpVars, regVars, srvVars, dsVars, ctrVars>>

\* A slip: the hooks run but the context locals are not released.
App___cleanup_NoRelease(r, raising) ==
    [r EXCEPT !.hook_ctx = r.ctx,
              !.hook_runs = [i \in 1..Len(cleanup_hooks) |-> r.hook_runs[i] + 1]]

\* A slip: no try around hook(), so the first hook that raises ends the loop.
App___cleanup_NoTry(r, raising) ==
    [r EXCEPT !.ctx = {},
              !.hook_runs = [i \in 1..Len(cleanup_hooks) |->
                                IF \E j \in raising : j < i
                                THEN r.hook_runs[i] ELSE r.hook_runs[i] + 1]]

\* A slip: the hooks are called first, the context locals released after.
App___cleanup_HooksFirst(r, raising) ==
    [r EXCEPT !.ctx = {},
              !.hook_ctx = r.ctx,
              !.hook_runs = [i \in 1..Len(cleanup_hooks) |-> r.hook_runs[i] + 1]]

\* App.__cleanup: local_manager.cleanup() releases this thread's ctx, then
\* every hook in cleanup_hooks is called; what a hook raises (the hooks in
\* `raising`) is swallowed.  hook_ctx is the ctx that the hooks can read.
App___cleanup(r, raising) ==
    [r EXCEPT !.ctx = {},
              !.hook_ctx = {},
              !.hook_runs = [i \in 1..Len(cleanup_hooks) |-> r.hook_runs[i] + 1]]

\* The last callback of the ExitStack, App.__cleanup; then the with
\* statement ends, re-raising the exception in flight if there is one.
Exit_Cleanup(r, raising) ==
    LET c == [App___cleanup(r, raising) EXCEPT !.stack = <<>>]
    IN  IF c.exc # NoExc THEN Raise(c, c.exc)
        ELSE [c EXCEPT !.pc = IF c.mode = "wsgi" THEN "finally" ELSE "done"]

Exit_CleanupStep(t, raising) ==
    /\ th[t].pc = "exit"
    /\ th[t].stack # <<>>
    /\ th[t].stack[Len(th[t].stack)] = CleanupCallback
    /\ th' = [th EXCEPT ![t] = Exit_Cleanup(@, raising)]
    /\ UNCHANGED <<context_hooks, cleanup_hooks, app_eh, err_regs, requests>>
    /\ UNCHANGED <<resVars, ehVars, fmtVars, parVars, dmVars, cmpVars, regVars, srvVars, dsVars, ctrVars>>

\* A slip: no inner try around the error handler.
Call_Except_NoFallback(r) ==
    LET res == ErrorHandler_call(app_eh, r.exc, r.ctx)
    IN  [r EXCEPT !.eh_calls = Append(@, r.exc),
                  !.exc = res.raised,
                  !.response = res.response,
                  !.pc = "finally"]

\* App.__call__, `except BaseException as err`: the error handler's
\* response, or a bare 500 response if the handler itself raises.
Call_Except(r) ==
    LET res == ErrorHandler_call(app_eh, r.exc, r.ctx)
    IN  [r EXCEPT !.eh_calls = Append(@, r.exc),
                  !.exc = NoExc,
                  !.response = IF res.raised # NoExc THEN Resp(500, "BaseResponse")
                               ELSE res.response,
                  !.pc = "finally"]

Call_ExceptStep(t) ==
    /\ th[t].pc = "except"
    /\ th' = [th EXCEPT ![t] = Call_Except(@)]
    /\ UNCHANGED <<context_hooks, cleanup_hooks, app_eh, err_regs, requests>>
    /\ UNCHANGED <<resVars, ehVars, fmtVars, parVars, dmVars, cmpVars, regVars, srvVars, dsVars, ctrVars>>

\* App.__call__, `finally: return response(environ, start_response)`: the
\* return discards an exception in flight; an unbound `response` raises
\* UnboundLocalError (a NameError) to the WSGI server.
Call_Finally(r) ==
    IF r.response = Unbound
    THEN [r EXCEPT !.pc = "done", !.exc = NoExc,
                   !.propagated = Exc("NameError", "finally", 0)]
    ELSE [r EXCEPT !.pc = "done", !.exc = NoExc, !.returned = r.response]

Call_FinallyStep(t) ==
    /\ th[t].pc = "finally"
    /\ th' = [th EXCEPT ![t] = Call_Finally(@)]
    /\ UNCHANGED <<context_hooks, cleanup_hooks, app_eh, err_regs, requests>>
    /\ UNCHANGED <<resVars, ehVars, fmtVars, parVars, dmVars, cmpVars, regVars, srvVars, dsVars, ctrVars>>

NextApp ==
    \/ App_context
    \/ App_cleanup_hook
    \/ \E ty \in {"CustomError", "Exception"}, h \in {"custom_ok", "custom_raise"} :
          App_error_handler_register(ty, h)
    \/ \E t \in Threads :
          \/ \E m \in {"wsgi", "with"}, routed \in BOOLEAN : Call_Start(t, m, routed)
          \/ BuildContext_NoMatch(t)
          \/ BuildContext_Match(t)
          \/ \E setup \in SetupOutcomes : BuildContext_EnterStep(t, setup)
          \/ Body_cleanup_hook(t)
          \/ Body_SetCtx(t)
          \/ \E raises \in BOOLEAN : Body_With(t, raises)
          \/ \E outcome \in {"ok"} \cup DispatchErrors : Dispatch(t, outcome)
          \/ Dispatch_Except(t)
          \/ \E td \in TeardownOutcomes, fin \in BOOLEAN : Exit_TeardownStep(t, td, fin)
          \/ \E raising \in SUBSET (1..Len(cleanup_hooks)) : Exit_CleanupStep(t, raising)
          \/ Call_ExceptStep(t)
          \/ Call_FinallyStep(t)


(***************************************************************************)
(* The request context (SpecApp).                                          *)
(***************************************************************************)
ScopeExited(t) == th[t].built /\ th[t].pc \in {"except", "finally", "done"}

AllHooksRanOnce(t) ==
    /\ Len(th[t].hook_runs) = Len(cleanup_hooks)
    /\ \A i \in 1..Len(cleanup_hooks) : th[t].hook_runs[i] = 1

\* C1: once a request context that build_context returned has been exited,
\* normally or by an exception, nothing is left on ctx and every cleanup
\* hook of the app, those registered during the scope included, has run
\* exactly once for that scope.
C1_ContextTeardown ==
    \A t \in Threads : ScopeExited(t) => th[t].ctx = {} /\ AllHooksRanOnce(t)

\* A scope that yielded a context-manager value, stored a value of its own,
\* registered a cleanup hook while open and was left by an exception.
C1_Witness ==
    \E t \in Threads :
        /\ ScopeExited(t)
        /\ th[t].pc = "done"
        /\ th[t].propagated.type = "ValueError"
        /\ th[t].hooks_at_start >= 1
        /\ Len(cleanup_hooks) > th[t].hooks_at_start
        /\ th[t].cm_values # {}

C3_SetupErrorReachesHandler ==
    \A t \in Threads :
        th[t].setup_failed # 0 =>
            LET err == Exc("CustomError", "cm", th[t].setup_failed)
            IN  /\ \A j \in 1..Len(th[t].setup_ran) :
                       th[t].setup_ran[j] <= th[t].setup_failed
                /\ (th[t].mode = "wsgi" /\ th[t].pc = "except") => th[t].exc = err
                /\ (th[t].mode = "wsgi" /\ th[t].pc \in {"finally", "done"}) =>
                       th[t].eh_calls = <<err>>

\* The first of two context managers raised; the request is answered.
C3_Witness ==
    \E t \in Threads :
        /\ th[t].setup_failed = 1
        /\ Len(context_hooks) >= 2
        /\ th[t].mode = "wsgi"
        /\ th[t].pc = "done"

\* C4: a request in which a context manager raised during setup ends with
\* ctx cleared and every cleanup hook run, as a request whose handler
\* raised does.
C4_CleanupAfterSetupError ==
    \A t \in Threads :
        (th[t].mode = "wsgi" /\ th[t].pc = "done" /\ th[t].setup_failed # 0) =>
            th[t].ctx = {} /\ AllHooksRanOnce(t)

Reverse(s) == [i \in 1..Len(s) |-> s[Len(s) + 1 - i]]

C28_TeardownBeforeClear ==
    \A t \in Threads :
        ScopeExited(t) =>
            /\ \A i \in 1..Len(th[t].exit_calls) : th[t].exit_calls[i].readable
            /\ Len(th[t].exit_calls) = Len(th[t].setup_ran)
            /\ th[t].hook_ctx = {}
            /\ AllHooksRanOnce(t)

\* A request with a context manager that yielded a value and a cleanup
\* hook: the teardown ran with the value on ctx, then the hook ran.
C28_Witness ==
    \E t \in Threads :
        /\ ScopeExited(t)
        /\ th[t].cm_values # {}
        /\ th[t].teardown_ran # <<>>
        /\ Len(cleanup_hooks) >= 1
        /\ th[t].hook_runs[1] = 1
        /\ 1 \in th[t].cm_values
        /\ \E i \in 1..Len(th[t].exit_calls) :
               th[t].exit_calls[i].ran /\ th[t].exit_calls[i].readable

\* C14: when an error handler itself raises while it handles an error of
\* the request, no error handler is invoked again for that request (the
\* handler's own exception is never given to an error handler), and the
\* request is answered with the bare 500 response.
C14_NoHandlerLoop ==
    \A t \in Threads :
        th[t].mode = "wsgi" =>
            /\ \A i \in 1..Len(th[t].eh_calls) :
                   th[t].eh_calls[i].origin[1] # "handler"
            /\ (/\ th[t].pc = "done"
                /\ \E i \in 1..Len(th[t].eh_calls) :
                       ErrorHandler_choose_best_handler(
                           app_eh, th[t].eh_calls[i].type).h = "custom_raise")
                    => th[t].returned = Resp(500, "BaseResponse")

(***************************************************************************)
(* Data models (findig.data_model): a mapping from operation names to      *)
(* handler functions, here from a set of operations to handler identities. *)
(***************************************************************************)
all_actions == {"read", "write", "delete", "make"}

EmptyModel == [k \in {} |-> <<"none", "none">>]

\* A model that defines the operations in `ops`, each with a handler of its own.
\* A handler is a reference <<owner, name>> to a function.
ModelOf(owner, ops) == [k \in ops |-> <<owner, k>>]

NotCallable == <<"not", "callable">>

\* DataModel.__setitem__: model[action] = func
DataModel___setitem__(model, action, func) ==
    IF action \notin all_actions
    THEN [model |-> model, raised |-> "ValueError"]
    ELSE IF func = NotCallable
    THEN [model |-> model, raised |-> "TypeError"]
    ELSE [model |-> [k \in (DOMAIN model) \cup {action} |->
                        IF k = action THEN func ELSE model[k]],
          raised |-> "none"]

\* DataModel.__delitem__: del model[action]
DataModel___delitem__(model, action) ==
    IF action \notin all_actions
    THEN [model |-> model, raised |-> "ValueError"]
    ELSE IF action \notin DOMAIN model
    THEN [model |-> model, raised |-> "KeyError"]
    ELSE [model |-> [k \in (DOMAIN model) \ {action} |-> model[k]],
          raised |-> "none"]

\* A slip: the other model's handlers win.
AbstractDataModel_compose_OtherWins(self, other) ==
    [k \in (DOMAIN other) \cup (DOMAIN self) |->
        IF k \in DOMAIN other THEN other[k] ELSE self[k]]

\* AbstractDataModel.compose: dict(other), updated with self.
AbstractDataModel_compose(self, other) ==
    [k \in (DOMAIN other) \cup (DOMAIN self) |->
        IF k \in DOMAIN self THEN self[k] ELSE other[k]]

\* DataSetDataModel.__iter__: the operations a wrapped data set gives.
DataSetKinds == {"iterable", "MutableDataSet", "MutableRecord"}

DataSetDataModel(ds) ==
    ModelOf("dataset",
            {"read"} \cup (IF ds = "MutableDataSet" THEN {"make"} ELSE {})
                     \cup (IF ds = "MutableRecord" THEN {"write", "delete"} ELSE {}))

(***************************************************************************)
(* Resource and Collection (findig.resource).                              *)
(*   resource  the resource under test: its class, whether it is lazy and  *)
(*             what its wrapped function returns, its declared model       *)
(*   handled   the last handle_request call: its inputs and its outcome    *)
(***************************************************************************)
Methods == {"GET", "HEAD", "PUT", "DELETE", "POST", "PATCH"}

\* Resource.__init__: the default error handler of a resource.
ResourceErrorHandlers == <<[key |-> "LookupError", h |-> "_on_lookup_err"]>>

\* Resource.compose_model(wrapper_args) with wrapper_args given, as in
\* handle_request.
Resource_compose_model(res) ==
    IF res.lazy
    THEN AbstractDataModel_compose(res.model, DataSetDataModel(res.dataset))
    ELSE IF "read" \notin DOMAIN res.model
    THEN AbstractDataModel_compose(res.model, ModelOf("wrapped", {"read"}))
    ELSE res.model

\* Resource.get_supported_methods(model), and Collection's override.
Resource_get_supported_methods(res, model) ==
    {"GET"} \cup (IF "delete" \in DOMAIN model THEN {"DELETE"} ELSE {})
            \cup (IF "write" \in DOMAIN model THEN {"PUT"} ELSE {})
            \cup (IF res.kind = "Collection" /\ "make" \in DOMAIN model
                  THEN {"POST"} ELSE {})

\* The outcome of a call: a value returned, or an exception raised.
\* `invoked` is the operation handler that was called, if any; `allowed`
\* is the method list a MethodNotAllowed carries; `response_status` is
\* ctx.response['status'], "unset" while the dict has no such key.
NoOp == <<"none", "none">>

Returned(invoked) ==
    [status |-> "returned", exc |-> "none", allowed |-> {}, invoked |-> invoked,
     response_status |-> "unset"]

Raised(ty, allowed, invoked) ==
    [status |-> "raised", exc |-> ty, allowed |-> allowed, invoked |-> invoked,
     response_status |-> "unset"]

\* Calling the selected handler: validate_arguments, then handler.func.
\* `parse` is what reading request.input does, `op` what the operation does.
InvokeHandler(model, opname, needs_input, parse, op) ==
    IF opname \notin DOMAIN model
    THEN Raised("KeyError", {}, NoOp)
    ELSE IF needs_input /\ parse # "ok"
    THEN Raised(parse, {}, NoOp)
    ELSE IF op # "ok"
    THEN Raised(op, {}, model[opname])
    ELSE Returned(model[opname])

\* Resource._extract_handler followed by the call of the handler.
Resource__extract_handler(res, method, model, parse, op) ==
    LET supported_methods == Resource_get_supported_methods(res, model)
    IN  IF method \notin supported_methods /\ method # "HEAD"
        THEN Raised("MethodNotAllowed", supported_methods, NoOp)
        ELSE IF method \in {"GET", "HEAD"}
        THEN InvokeHandler(model, "read", FALSE, parse, op)
        ELSE IF method = "DELETE"
        THEN InvokeHandler(model, "delete", FALSE, parse, op)
        ELSE IF method = "PUT"
        THEN InvokeHandler(model, "write", TRUE, parse, op)
        ELSE Raised("ValueError", {}, NoOp)

\* Collection._extract_handler: POST selects model['make'] without looking
\* at the supported methods.
Collection__extract_handler(res, method, model, parse, op) ==
    IF method = "POST"
    THEN InvokeHandler(model, "make", TRUE, parse, op)
    ELSE Resource__extract_handler(res, method, model, parse, op)

\* A slip: the resource has no handler for LookupError, so it is re-raised.
Resource_error_handler_Reraise(out) ==
    out

\* The resource's error handler applied to what the try block raised:
\* _on_lookup_err raises NotFound; a type without a handler is re-raised.
Resource_error_handler(out) ==
    LET chosen == ErrorHandler_choose_best_handler(ResourceErrorHandlers, out.exc)
    IN  IF chosen.h = "_on_lookup_err"
        THEN Raised("NotFound", {}, out.invoked)
        ELSE out

\* Resource.handle_request.
Resource_handle_request(res, method, parse, op) ==
    LET model == Resource_compose_model(res)
        out == IF res.kind = "Collection"
               THEN Collection__extract_handler(res, method, model, parse, op)
               ELSE Resource__extract_handler(res, method, model, parse, op)
    IN  IF out.status = "raised" THEN Resource_error_handler(out) ELSE out

\* Collection.handle_request: after Resource.handle_request returned, the
\* POST branch (ctx.response is the dict that Dispatcher.dispatch has set)
\* reads the undefined name `data` and the other branch the undefined name
\* `method`; either raises NameError.
Collection_handle_request(res, method, parse, op) ==
    LET ret == Resource_handle_request(res, method, parse, op)
    IN  IF ret.status = "raised" THEN ret
        ELSE IF method = "POST"
        THEN [Raised("NameError", {}, ret.invoked) EXCEPT !.response_status = "201"]
        ELSE Raised("NameError", {}, ret.invoked)

handle_request(res, method, parse, op) ==
    IF res.kind = "Collection"
    THEN Collection_handle_request(res, method, parse, op)
    ELSE Resource_handle_request(res, method, parse, op)

\* What the operation returns (a Response, None or other data), and what
\* the post-processors and the formatter do with other data.
OpOutcomes == {"ok", "LookupError", "KeyError", "ValueError", "BadRequest"}

DataKinds == {"data", "None", "Response"}

PostOutcomes == {"ok", "ValueError"}

FormatOutcomes == {"ok", "AttributeError", "NotAcceptable"}

\* Dispatcher.dispatch after resource.handle_request gave `out`: a Response
\* is returned as it is, None gives an empty response, other data goes
\* through the post-processors and the formatter; whatever is raised in the
\* try block is given to the dispatcher's error handler.  The result is
\* what that handler raised, if anything, and the response returned.
Dispatcher_dispatch(error_handler, out, data, post, format) ==
    LET ctxkeys == {CtxKey("request"), CtxKey("response")}
        err == IF out.status = "raised" THEN out.exc
               ELSE IF data # "data" THEN "none"
               ELSE IF post # "ok" THEN post
               ELSE IF format # "ok" THEN format
               ELSE "none"
    IN  IF err # "none"
        THEN ErrorHandler_call(error_handler, Exc(err, "dispatch", 0), ctxkeys)
        ELSE [raised |-> NoExc,
              response |-> IF data = "Response"
                           THEN Resp(200, "handler")
                           ELSE Resp(IF out.response_status = "201" THEN 201
                                     ELSE 200, "response_class")]

NotHandled ==
    [method |-> "none", parse |-> "none", op |-> "none", data |-> "none",
     post |-> "none", format |-> "none", supported |-> {},
     out |-> Raised("none", {}, NoOp),
     result |-> [raised |-> NoExc, response |-> Unbound]]

InitResVars ==
    /\ resource = [kind |-> "Resource", lazy |-> FALSE, dataset |-> "iterable",
                   model |-> EmptyModel]
    /\ handled = NotHandled

\* Resource(...) or Collection(...): a new resource with an empty DataModel,
\* lazy (its wrapped function returns a data set) or not.
Resource_init(kind, lazy, ds) ==
    /\ lazy \/ ds = "iterable"
    /\ resource' = [kind |-> kind, lazy |-> lazy, dataset |-> ds,
                    model |-> EmptyModel]
    /\ handled' = NotHandled
    /\ UNCHANGED <<appVars, ehVars, fmtVars, parVars, dmVars, cmpVars, regVars, srvVars, dsVars, ctrVars>>

\* resource.model[action] = func, as the @resource.model(action) decorator
\* does.
Resource_model(action) ==
    /\ resource' = [resource EXCEPT !.model =
                       DataModel___setitem__(@, action, <<"model", action>>).model]
    /\ handled' = NotHandled
    /\ UNCHANGED <<appVars, ehVars, fmtVars, parVars, dmVars, cmpVars, regVars, srvVars, dsVars, ctrVars>>

\* A request is dispatched to the resource: handle_request, then the rest
\* of Dispatcher.dispatch with the default error handler of a dispatcher.
\* Handling a request leaves the resource as it is, so one request is looked
\* at after each change of the resource.
HandleRequest(method, parse, op, data, post, format) ==
    /\ handled = NotHandled
    /\ LET out == handle_request(resource, method, parse, op)
       IN  handled' = [method |-> method, parse |-> parse, op |-> op,
                       data |-> data, post |-> post, format |-> format,
                       supported |-> Resource_get_supported_methods(
                                         resource, Resource_compose_model(resource)),
                       out |-> out,
                       result |-> Dispatcher_dispatch(DefaultErrorHandlers, out,
                                                      data, post, format)]
    /\ UNCHANGED resource
    /\ UNCHANGED <<appVars, ehVars, fmtVars, parVars, dmVars, cmpVars, regVars, srvVars, dsVars, ctrVars>>

NextRes ==
    \/ \E kind \in {"Resource", "Collection"}, lazy \in BOOLEAN, ds \in DataSetKinds :
          Resource_init(kind, lazy, ds)
    \/ \E action \in all_actions : Resource_model(action)
    \/ \E method \in Methods, parse \in {"ok", "UnsupportedMediaType"},
          op \in OpOutcomes, data \in DataKinds, post \in PostOutcomes,
          format \in FormatOutcomes :
          HandleRequest(method, parse, op, data, post, format)

(***************************************************************************)
(* Resource and Collection (SpecRes).                                      *)
(***************************************************************************)

\* C5: handling a request whose method maps to an operation that is absent
\* from the composed model (the method is not among the supported ones)
\* fails with MethodNotAllowed carrying the supported method set, and no
\* operation handler is invoked.
C5_AbsentOperationNotAllowed ==
    (/\ handled.method \in Methods
     /\ handled.method # "HEAD"
     /\ handled.method \notin handled.supported)
        => /\ handled.out.status = "raised"
           /\ handled.out.exc = "MethodNotAllowed"
           /\ handled.out.allowed = handled.supported
           /\ handled.out.invoked = NoOp

\* C11: after a POST to a Collection whose make operation ran without error
\* the request succeeds (whether the item's URL can be built or not) and the
\* response status is 201.
C11_PostCreated ==
    (/\ resource.kind = "Collection"
     /\ handled.method = "POST"
     /\ "POST" \in handled.supported
     /\ handled.parse = "ok"
     /\ handled.op = "ok")
        => /\ handled.out.status = "returned"
           /\ handled.out.invoked = Resource_compose_model(resource)["make"]
           /\ handled.out.response_status = "201"

\* C12: a GET on a Collection whose read operation ran without error
\* returns what the read operation produced.
C12_GetReturnsItems ==
    (/\ resource.kind = "Collection"
     /\ handled.method = "GET"
     /\ handled.op = "ok")
        => /\ handled.out.status = "returned"
           /\ handled.out.invoked = Resource_compose_model(resource)["read"]

\* C13: when the read operation raises a LookupError while a request is
\* handled, the resource's default error handler raises NotFound in its
\* place, and the dispatcher answers with a 404 response.
C13_LookupErrorGives404 ==
    (/\ handled.method \in {"GET", "HEAD"}
     /\ handled.op \in {"LookupError", "KeyError"})
        => /\ handled.out.status = "raised"
           /\ handled.out.exc = "NotFound"
           /\ handled.out.invoked = Resource_compose_model(resource)["read"]
           /\ handled.result.raised = NoExc
           /\ handled.result.response = Resp(404, "_handle_http_exception")

C13_Witness ==
    /\ resource.kind = "Collection"
    /\ handled.method = "GET"
    /\ handled.op = "KeyError"
    /\ handled.out.exc = "NotFound"
    /\ handled.result.response.status = 404

\* The exception raised by the operation, a post-processor or the formatter
\* in the last request, "none" if none of them raised.
PipelineError ==
    IF handled.op # "ok" /\ handled.out.invoked # NoOp
    THEN handled.op
    ELSE IF handled.out.status # "returned" \/ handled.data # "data"
    THEN "none"
    ELSE IF handled.post # "ok"
    THEN handled.post
    ELSE IF handled.format # "ok"
    THEN handled.format
    ELSE "none"

\* The resource's error handler has no handler for the pipeline's error.
Unhandled ==
    /\ PipelineError # "none"
    /\ ErrorHandler_choose_best_handler(ResourceErrorHandlers,
                                        PipelineError).h = NoHandler

\* C15 as stated: an exception of the operation, the post-processors or
\* the formatter that the resource's error handler has no handler for is
\* re-raised to the dispatcher, whose catch-all answers with a 500 response
\* that does not carry the exception's message.
C15_UnhandledGives500 ==
    Unhandled
        => /\ handled.op # "ok" =>
                 /\ handled.out.status = "raised"
                 /\ handled.out.exc = handled.op
           /\ handled.result.raised = NoExc
           /\ handled.result.response = Resp(500, "_handle_exception")

\* C15, as the code has it: such an exception reaches the dispatcher's
\* error handler; an HTTPException is answered with its own status and
\* description, any other exception with a 500 response of fixed text.
C15_UnhandledReachesDispatcher ==
    Unhandled
        => /\ handled.op # "ok" =>
                 /\ handled.out.status = "raised"
                 /\ handled.out.exc = handled.op
           /\ handled.result.raised = NoExc
           /\ handled.result.response =
                 IF issubclass(PipelineError, "HTTPException")
                 THEN Resp(StatusOf(PipelineError), "_handle_http_exception")
                 ELSE Resp(500, "_handle_exception")

C15_Witness ==
    /\ handled.op = "ValueError"
    /\ handled.out.invoked # NoOp
    /\ handled.out.exc = "ValueError"
    /\ handled.result.response = Resp(500, "_handle_exception")

(***************************************************************************)
(* ErrorHandler (findig.content).                                          *)
(*   eh_handlers  ErrorHandler.handlers                                    *)
(*   eh_best      the last call: the error it was given, the type and the  *)
(*                handler chosen, what was raised                          *)
(***************************************************************************)
\* What applications register handlers for; int is not an exception type.
EHTypes ==
    {"Exception", "HTTPException", "BadRequest", "LookupError", "KeyError",
     "int"}

EHFuncs == {<<"func", "f">>, <<"func", "g">>, NotCallable}

\* The errors the handler is called with.
RaisedTypes ==
    {"BadRequestKeyError", "KeyError", "BadRequest", "NotFound", "CustomError"}

NoChoice ==
    [call |-> "none", err |-> "none", htype |-> NoHandler, h |-> NoOp,
     raised |-> "none"]

InitEhVars ==
    /\ eh_handlers = <<>>
    /\ eh_best = NoChoice

\* HandlerAggregator.register(key, handler) with a handler given.
HandlerAggregator_register(handlers, key, handler) ==
    IF handler = NotCallable
    THEN [handlers |-> handlers, raised |-> "ValueError"]
    ELSE [handlers |-> DictSet(handlers, key, handler), raised |-> "none"]

\* ErrorHandler.register(err_type, handler)
ErrorHandler_register(err_type, handler) ==
    /\ Len(eh_handlers) < MaxHandlers
    /\ LET r == IF ~(err_type \in ExcTypes /\ issubclass(err_type, "BaseException"))
                THEN [handlers |-> eh_handlers, raised |-> "ValueError"]
                ELSE HandlerAggregator_register(eh_handlers, err_type, handler)
       IN  /\ eh_handlers' = r.handlers
           /\ eh_best' = [NoChoice EXCEPT !.call = "register",
                                          !.raised = r.raised]
    /\ UNCHANGED <<appVars, resVars, fmtVars, parVars, dmVars, cmpVars, regVars, srvVars, dsVars, ctrVars>>

\* ErrorHandler.__call__(err): the chosen handler is called with the error;
\* without one the error is raised again.
ErrorHandler___call__(err_type) ==
    /\ LET best == ErrorHandler_choose_best_handler(eh_handlers, err_type)
       IN  eh_best' = [call |-> "call", err |-> err_type,
                       htype |-> best.htype,
                       h |-> IF best.htype = NoHandler THEN NoOp ELSE best.h,
                       raised |-> IF best.htype = NoHandler
                                  THEN err_type ELSE "none"]
    /\ UNCHANGED eh_handlers
    /\ UNCHANGED <<appVars, resVars, fmtVars, parVars, dmVars, cmpVars, regVars, srvVars, dsVars, ctrVars>>

NextEH ==
    \/ \E err_type \in EHTypes, handler \in EHFuncs :
          ErrorHandler_register(err_type, handler)
    \/ \E err_type \in RaisedTypes : ErrorHandler___call__(err_type)

\* The registered types that an error of type err_type is an instance of,
\* and the most specific of them: those with no registered applicable
\* strict subclass.
Applicable(handlers, err_type) ==
    {k \in Keys(handlers) : issubclass(err_type, k)}

MostSpecific(handlers, err_type) ==
    {k \in Applicable(handlers, err_type) :
        \A j \in Applicable(handlers, err_type) : issubclass(j, k) => j = k}

FirstRegistered(handlers, types) ==
    CHOOSE k \in types : \A j \in types : IndexOf(handlers, k) <= IndexOf(handlers, j)

\* C6 as stated: the handler chosen is the one registered for the most
\* specific applicable type and, among equally specific types, for the one
\* registered first.
C6_MostSpecificTiesByOrder ==
    (eh_best.call = "call" /\ Applicable(eh_handlers, eh_best.err) # {})
        => /\ eh_best.htype =
                  FirstRegistered(eh_handlers, MostSpecific(eh_handlers, eh_best.err))
           /\ eh_best.h = Lookup(eh_handlers, eh_best.htype)

\* C6, amended: for any error and any registration order the handler chosen
\* is the one registered for a most specific applicable type (no registered
\* applicable type is a strict subclass of it; with handlers on Base and Mid
\* only, a Leaf error gets Mid's handler).  Among several equally specific
\* types the first applicable type registered wins when it is one of them;
\* an error no registered type applies to is raised again.
C6_MostSpecific ==
    eh_best.call = "call" =>
        IF Applicable(eh_handlers, eh_best.err) = {}
        THEN eh_best.htype = NoHandler /\ eh_best.raised = eh_best.err
        ELSE /\ eh_best.htype \in MostSpecific(eh_handlers, eh_best.err)
             /\ eh_best.h = Lookup(eh_handlers, eh_best.htype)
             /\ eh_best.raised = "none"
             /\ LET first == FirstRegistered(eh_handlers,
                                             Applicable(eh_handlers, eh_best.err))
                IN  first \in MostSpecific(eh_handlers, eh_best.err)
                        => eh_best.htype = first

\* A KeyError handled with handlers on Exception and then LookupError (Base
\* and Mid, the general one registered first): LookupError's is chosen.
C6_Witness ==
    /\ eh_best.call = "call"
    /\ eh_best.err = "KeyError"
    /\ Len(eh_handlers) = 2
    /\ eh_handlers[1].key = "Exception"
    /\ eh_handlers[2].key = "LookupError"
    /\ eh_best.htype = "LookupError"

(***************************************************************************)
(* ContentPipe (findig.content): what Formatter and Parser share.  A media *)
(* type is the tuple of the parts that "/" separates; a pipe is its        *)
(* handlers, its default attribute (NoDefault while the attribute is not   *)
(* set) and the media type of a decorator that register returned and that  *)
(* has not been applied yet.                                               *)
(***************************************************************************)
MimeTypes == {<<"text", "plain">>, <<"application", "json">>}

\* 'default' is not a media type: it has no "/".
BadMimeType == <<"default">>

NoDefault == <<>>

PipeFuncs == {<<"func", "f">>, <<"func", "g">>}

\* register is called with a handler, with something that is not callable,
\* or without one (None: the decorator form).
RegisterArgs == PipeFuncs \cup {NotCallable, <<"None">>}

EmptyPipe == [handlers |-> <<>>, default |-> NoDefault, pending |-> NoDefault]

\* ContentPipe.register(mime_type, handler, default)
ContentPipe_register(pipe, mime_type, handler, default) ==
    IF Len(mime_type) - 1 # 1
    THEN [pipe |-> pipe, raised |-> "ValueError"]
    ELSE LET p == IF default THEN [pipe EXCEPT !.default = mime_type] ELSE pipe
         IN  IF handler = <<"None">>
             THEN [pipe |-> [p EXCEPT !.pending = mime_type], raised |-> "none"]
             ELSE LET r == HandlerAggregator_register(p.handlers, mime_type, handler)
                  IN  [pipe |-> [p EXCEPT !.handlers = r.handlers],
                       raised |-> r.raised]

\* register_handler(handler): the decorator that register returned is applied.
HandlerAggregator_register_handler(pipe, handler) ==
    [pipe EXCEPT !.handlers = DictSet(@, pipe.pending, handler),
                 !.pending = NoDefault]

\* What choose_best_handler gives: a (mime_type, handler) tuple or a partial
\* of the handler, or the exception it raises.
Chosen(shape, mime_type, h, options) ==
    [status |-> "returned", shape |-> shape, exc |-> "none",
     mime |-> mime_type, h |-> h, options |-> options, invoked |-> NoOp]

Failed(ty) ==
    [status |-> "raised", shape |-> "none", exc |-> ty,
     mime |-> NoDefault, h |-> NoOp, options |-> <<>>, invoked |-> NoOp]

\* ContentPipe.__call__(obj): the result of choose_best_handler is unpacked
\* into (mime_type, handler) and the handler is called.
ContentPipe___call__(chosen) ==
    IF chosen.status = "raised" THEN chosen
    ELSE IF chosen.shape # "tuple" THEN Failed("TypeError")
    ELSE [chosen EXCEPT !.invoked = chosen.h]

(***************************************************************************)
(* Formatter.                                                              *)
(*   formatter  the Formatter                                              *)
(*   resolved   the last call of the formatter: the request and the result *)
(*                                                                         *)
(* A request is of App.request_class.  findig.wrappers.Request, the        *)
(* default, has no get method; has_get tells an application-supplied class *)
(* whose get(name) gives the named header, or None.  The Accept header is  *)
(* a sequence of (value, quality) items, quality in halves.                *)
(***************************************************************************)
AcceptRanges == {<<"text", "plain">>, <<"text", "*">>, <<"*", "*">>}

AcceptItems == [value : AcceptRanges, quality : {0, 1, 2}]

RECURSIVE SeqsUpTo(_, _)
SeqsUpTo(S, n) ==
    IF n = 0 THEN {<<>>}
    ELSE SeqsUpTo(S, n - 1) \cup
         {Append(s, x) : s \in {t \in SeqsUpTo(S, n - 1) : Len(t) = n - 1}, x \in S}

Requests ==
    {[has_get |-> g, has_accept |-> TRUE, accept |-> a] :
        g \in BOOLEAN, a \in SeqsUpTo(AcceptItems, MaxAccept)}
    \cup {[has_get |-> g, has_accept |-> FALSE, accept |-> <<>>] : g \in BOOLEAN}

\* The order of the strings "*/*" < "text/*" < "text/plain".
RangeRank(value) ==
    CASE value = <<"*", "*">> -> 0
      [] value = <<"text", "*">> -> 1
      [] OTHER -> 2

\* werkzeug's Accept keeps its items sorted by (quality, value), descending.
AcceptBefore(a, b) ==
    \/ a.quality > b.quality
    \/ a.quality = b.quality /\ RangeRank(a.value) > RangeRank(b.value)

RECURSIVE AcceptInsert(_, _)
AcceptInsert(s, x) ==
    IF s = <<>> THEN <<x>>
    ELSE IF AcceptBefore(x, Head(s)) THEN <<x>> \o s
    ELSE <<Head(s)>> \o AcceptInsert(Tail(s), x)

RECURSIVE parse_accept_header(_)
parse_accept_header(value) ==
    IF value = <<>> THEN <<>>
    ELSE AcceptInsert(parse_accept_header(Tail(value)), Head(value))

\* MIMEAccept._value_matches(value, item)
MIMEAccept__value_matches(value, item) ==
    \/ item[1] = "*" /\ item[2] = "*"
    \/ value[1] = "*" /\ value[2] = "*"
    \/ /\ item[1] = value[1]
       /\ (item[2] = "*" \/ value[2] = "*" \/ item[2] = value[2])

\* Accept.best_match(matches): for each server item, in order, the client
\* items are scanned until one is no better than the best so far.
RECURSIVE ClientItems(_, _, _, _)
ClientItems(accept, j, server_item, st) ==
    IF j > Len(accept) THEN st
    ELSE IF accept[j].quality <= st.best_quality THEN st
    ELSE IF /\ MIMEAccept__value_matches(server_item, accept[j].value)
            /\ accept[j].quality > 0
    THEN ClientItems(accept, j + 1, server_item,
                     [best_quality |-> accept[j].quality, result |-> server_item])
    ELSE ClientItems(accept, j + 1, server_item, st)

RECURSIVE ServerItems(_, _, _, _)
ServerItems(accept, handlers, i, st) ==
    IF i > Len(handlers) THEN st
    ELSE ServerItems(accept, handlers, i + 1,
                     ClientItems(accept, 1, handlers[i].key, st))

Accept_best_match(accept, handlers) ==
    ServerItems(accept, handlers, 1,
                [best_quality |-> -1, result |-> NoDefault]).result

\* Formatter.choose_best_handler (the code after line 131 is never reached).
Formatter_choose_best_handler(pipe, request) ==
    IF ~request.has_get THEN Failed("AttributeError")
    ELSE IF ~request.has_accept
    THEN IF pipe.default # NoDefault
         THEN IF pipe.default \in Keys(pipe.handlers)
              THEN Chosen("tuple", pipe.default,
                          Lookup(pipe.handlers, pipe.default), <<>>)
              ELSE Failed("KeyError")
         ELSE IF Len(pipe.handlers) > 0
         THEN Chosen("tuple", pipe.handlers[1].key, pipe.handlers[1].h, <<>>)
         ELSE Failed("ValueError")
    ELSE LET accept == parse_accept_header(request.accept)
             mime_type == Accept_best_match(accept, pipe.handlers)
         IN  IF mime_type # NoDefault
             THEN Chosen("tuple", mime_type, Lookup(pipe.handlers, mime_type), <<>>)
             ELSE Failed("NotAcceptable")

NoRequest == [has_get |-> FALSE, has_accept |-> FALSE, accept |-> <<>>]

NotResolved == [call |-> "none", request |-> NoRequest, out |-> Failed("none")]

InitFmtVars ==
    /\ formatter = EmptyPipe
    /\ resolved = NotResolved

\* formatter.register(mime_type, handler, default)
Formatter_register(mime_type, handler, default) ==
    /\ handler = <<"None">> => formatter.pending = NoDefault
    /\ LET r == ContentPipe_register(formatter, mime_type, handler, default)
       IN  /\ formatter' = r.pipe
           /\ resolved' = [NotResolved EXCEPT !.call = "register",
                                              !.out = Failed(r.raised)]
    /\ UNCHANGED <<appVars, resVars, ehVars, parVars, dmVars, cmpVars, regVars, srvVars, dsVars, ctrVars>>

\* The decorator that formatter.register(mime_type) returned is applied.
Formatter_register_handler(handler) ==
    /\ formatter.pending # NoDefault
    /\ formatter' = HandlerAggregator_register_handler(formatter, handler)
    /\ resolved' = [NotResolved EXCEPT !.call = "register"]
    /\ UNCHANGED <<appVars, resVars, ehVars, parVars, dmVars, cmpVars, regVars, srvVars, dsVars, ctrVars>>

\* formatter(data) while `request` is being handled.  The call leaves the
\* formatter as it is, so one call is looked at after each registration.
Formatter___call__(request) ==
    /\ resolved.call # "call"
    /\ resolved' = [call |-> "call", request |-> request,
                    out |-> ContentPipe___call__(
                                Formatter_choose_best_handler(formatter, request))]
    /\ UNCHANGED formatter
    /\ UNCHANGED <<appVars, resVars, ehVars, parVars, dmVars, cmpVars, regVars, srvVars, dsVars, ctrVars>>

NextFmt ==
    \/ \E mime_type \in MimeTypes \cup {BadMimeType}, handler \in RegisterArgs,
          default \in BOOLEAN :
          Formatter_register(mime_type, handler, default)
    \/ \E handler \in PipeFuncs : Formatter_register_handler(handler)
    \/ \E request \in Requests : Formatter___call__(request)

\* C29: after any sequence of register calls on a Formatter (with a handler,
\* as a decorator once the decorator has been applied, or failing with
\* ValueError), a designated default media type names one of the handlers.
C29_DefaultIsRegistered ==
    (/\ formatter.default # NoDefault
     /\ formatter.pending # formatter.default)
        => formatter.default \in Keys(formatter.handlers)

\* C7: for every Formatter whose default names one of its handlers,
\* formatting for a request that has no Accept header uses the default's
\* media type and handler, wherever among the handlers it was registered.
C7_DefaultWithoutAccept ==
    (/\ resolved.call = "call"
     /\ ~resolved.request.has_accept
     /\ formatter.default \in Keys(formatter.handlers))
        => /\ resolved.out.status = "returned"
           /\ resolved.out.mime = formatter.default
           /\ resolved.out.h = Lookup(formatter.handlers, formatter.default)

\* The Accept header has */* among its ranges, with a quality above 0, and
\* no other range of it matches a registered media type.
OnlyWildcardMatches(pipe, request) ==
    /\ request.has_accept
    /\ \E i \in 1..Len(request.accept) :
          request.accept[i].value = <<"*", "*">> /\ request.accept[i].quality > 0
    /\ \A i \in 1..Len(request.accept) :
          request.accept[i].value # <<"*", "*">>
              => \A k \in Keys(pipe.handlers) :
                    ~MIMEAccept__value_matches(k, request.accept[i].value)

\* C8: when the Accept header contains */* and none of its other ranges
\* matches a registered media type, formatting uses the first registered
\* handler and does not fail with NotAcceptable.
C8_WildcardFallsBackToFirst ==
    (/\ resolved.call = "call"
     /\ Len(formatter.handlers) > 0
     /\ OnlyWildcardMatches(formatter, resolved.request))
        => /\ resolved.out.status = "returned"
           /\ resolved.out.mime = formatter.handlers[1].key
           /\ resolved.out.h = formatter.handlers[1].h

\* C17: when the Accept header of the request is exactly */*, formatting
\* uses the formatter's default media type and handler if it has a default,
\* wherever that was registered, and otherwise the first registered handler.
C17_WildcardOnlyUsesDefault ==
    (/\ resolved.call = "call"
     /\ resolved.request.has_accept
     /\ resolved.request.accept = <<[value |-> <<"*", "*">>, quality |-> 2]>>
     /\ Len(formatter.handlers) > 0
     /\ formatter.default # NoDefault => formatter.default \in Keys(formatter.handlers))
        => LET mime_type == IF formatter.default # NoDefault
                            THEN formatter.default
                            ELSE formatter.handlers[1].key
           IN  /\ resolved.out.status = "returned"
               /\ resolved.out.mime = mime_type
               /\ resolved.out.h = Lookup(formatter.handlers, mime_type)

(***************************************************************************)
(* Parser.                                                                 *)
(*   parser  the Parser                                                    *)
(*   parsed  the last call of the parser: the request's Content-Type       *)
(*           header and the result                                         *)
(*                                                                         *)
(* A Content-Type header is absent, or it is the sequence of the parts     *)
(* that ";" separates: the media type, then the options.                   *)
(***************************************************************************)
ContentTypes ==
    {<<"text", "plain">>, <<"application", "json">>, <<"text", "xml">>, <<"">>}

ContentTypeHeaders ==
    {[present |-> FALSE, value |-> <<>>]}
    \cup {[present |-> TRUE, value |-> <<ct>> \o options] :
             ct \in ContentTypes, options \in {<<>>, <<"charset=utf-8">>}}

\* werkzeug's parse_options_header: the media type and the options.
parse_options_header(value) ==
    [content_type |-> Head(value), options |-> Tail(value)]

\* A slip: a media type without a handler is given to the first handler.
Parser_choose_best_handler_First(pipe, header) ==
    IF ~header.present THEN Failed("TypeError")
    ELSE LET content_type == parse_options_header(header.value).content_type
             options == parse_options_header(header.value).options
         IN  IF content_type \in Keys(pipe.handlers)
             THEN Chosen("partial", content_type,
                         Lookup(pipe.handlers, content_type), options)
             ELSE IF Len(pipe.handlers) > 0
             THEN Chosen("partial", pipe.handlers[1].key,
                         pipe.handlers[1].h, options)
             ELSE Failed("UnsupportedMediaType")

\* Parser.choose_best_handler.  Without a Content-Type header headers.get
\* gives None, which cannot be unpacked.
Parser_choose_best_handler(pipe, header) ==
    IF ~header.present THEN Failed("TypeError")
    ELSE LET content_type == parse_options_header(header.value).content_type
             options == parse_options_header(header.value).options
         IN  IF content_type \in Keys(pipe.handlers)
             THEN Chosen("partial", content_type,
                         Lookup(pipe.handlers, content_type), options)
             ELSE IF pipe.default # NoDefault
             THEN IF pipe.default \in Keys(pipe.handlers)
                  THEN Chosen("partial", pipe.default,
                              Lookup(pipe.handlers, pipe.default), options)
                  ELSE Failed("KeyError")
             ELSE Failed("UnsupportedMediaType")

NoHeader == [present |-> FALSE, value |-> <<>>]

NotParsed == [call |-> "none", header |-> NoHeader, out |-> Failed("none")]

InitParVars ==
    /\ parser = EmptyPipe
    /\ parsed = NotParsed

\* parser.register(mime_type, handler, default)
Parser_register(mime_type, handler, default) ==
    /\ handler = <<"None">> => parser.pending = NoDefault
    /\ LET r == ContentPipe_register(parser, mime_type, handler, default)
       IN  /\ parser' = r.pipe
           /\ parsed' = [NotParsed EXCEPT !.call = "register",
                                          !.out = Failed(r.raised)]
    /\ UNCHANGED <<appVars, resVars, ehVars, fmtVars, dmVars, cmpVars, regVars, srvVars, dsVars, ctrVars>>

\* The decorator that parser.register(mime_type) returned is applied.
Parser_register_handler(handler) ==
    /\ parser.pending # NoDefault
    /\ parser' = HandlerAggregator_register_handler(parser, handler)
    /\ parsed' = [NotParsed EXCEPT !.call = "register"]
    /\ UNCHANGED <<appVars, resVars, ehVars, fmtVars, dmVars, cmpVars, regVars, srvVars, dsVars, ctrVars>>

\* parser.choose_best_handler() while a request with `header` is handled.
Parser_resolve(header) ==
    /\ parsed' = [call |-> "choose", header |-> header,
                  out |-> Parser_choose_best_handler(parser, header)]
    /\ UNCHANGED parser
    /\ UNCHANGED <<appVars, resVars, ehVars, fmtVars, dmVars, cmpVars, regVars, srvVars, dsVars, ctrVars>>

\* parser(data) while a request with `header` is handled.
Parser___call__(header) ==
    /\ parsed' = [call |-> "call", header |-> header,
                  out |-> ContentPipe___call__(
                              Parser_choose_best_handler(parser, header))]
    /\ UNCHANGED parser
    /\ UNCHANGED <<appVars, resVars, ehVars, fmtVars, dmVars, cmpVars, regVars, srvVars, dsVars, ctrVars>>

NextParser ==
    \/ \E mime_type \in MimeTypes \cup {BadMimeType}, handler \in RegisterArgs,
          default \in BOOLEAN :
          Parser_register(mime_type, handler, default)
    \/ \E handler \in PipeFuncs : Parser_register_handler(handler)
    \/ \E header \in ContentTypeHeaders : Parser_resolve(header)
    \/ \E header \in ContentTypeHeaders : Parser___call__(header)

\* The request has a Content-Type header, its media type has no handler in
\* the pipe, and the pipe has no default.
UnregisteredNoDefault(pipe, header) ==
    /\ header.present
    /\ parse_options_header(header.value).content_type \notin Keys(pipe.handlers)
    /\ pipe.default = NoDefault

\* C9: for every request whose Content-Type media type is not registered in
\* the Parser, the Parser having no default, resolving and parsing fail with
\* UnsupportedMediaType: no handler is chosen or invoked, nothing is
\* returned.
C9_UnsupportedMediaType ==
    (parsed.call \in {"choose", "call"} /\ UnregisteredNoDefault(parser, parsed.header))
        => /\ parsed.out.status = "raised"
           /\ parsed.out.exc = "UnsupportedMediaType"
           /\ parsed.out.h = NoOp
           /\ parsed.out.invoked = NoOp

\* A parser that has handlers, none of them for the text/xml that the
\* request declares, is called.
C9_Witness ==
    /\ parsed.call = "call"
    /\ Len(parser.handlers) > 0
    /\ parsed.header.present
    /\ Head(parsed.header.value) = <<"text", "xml">>
    /\ parser.default = NoDefault
    /\ parsed.out.exc = "UnsupportedMediaType"

\* C19: when the media type of the request's Content-Type header, its
\* options left aside, is one the Parser has a handler for, calling the
\* Parser invokes that handler, with the options of the header as keyword
\* arguments, and returns what the handler returns.
C19_CallInvokesMatchingHandler ==
    (/\ parsed.call = "call"
     /\ parsed.header.present
     /\ parse_options_header(parsed.header.value).content_type
            \in Keys(parser.handlers))
        => LET content_type == parse_options_header(parsed.header.value).content_type
           IN  /\ parsed.out.status = "returned"
               /\ parsed.out.invoked = Lookup(parser.handlers, content_type)
               /\ parsed.out.options = parse_options_header(parsed.header.value).options

\* C20: a request that declares a Content-Type whose media type has no
\* handler in the Parser fails with UnsupportedMediaType, whether the Parser
\* has a default or not; the default handler is chosen only for a request
\* without Content-Type header.
C20_DefaultOnlyWithoutContentType ==
    (parsed.call \in {"choose", "call"}
     /\ (parser.default # NoDefault => parser.default \in Keys(parser.handlers)))
        => /\ (/\ parsed.header.present
               /\ parse_options_header(parsed.header.value).content_type
                      \notin Keys(parser.handlers))
                  => /\ parsed.out.status = "raised"
                     /\ parsed.out.exc = "UnsupportedMediaType"
           /\ (/\ ~parsed.header.present
               /\ parser.default # NoDefault
               /\ parsed.call = "choose")
                  => /\ parsed.out.status = "returned"
                     /\ parsed.out.h = Lookup(parser.handlers, parser.default)

(***************************************************************************)
(* Composing data models (SpecDM).                                         *)
(*   model_a, model_b  two DataModels                                      *)
(*   composite         the last model_a.compose(model_b): the two models   *)
(*                     as they were when it was called, and the result     *)
(***************************************************************************)
ModelFuncs == {<<"func", "f">>, <<"func", "g">>}

NotComposed ==
    [made |-> FALSE, self |-> EmptyModel, other |-> EmptyModel,
     result |-> EmptyModel]

InitDmVars ==
    /\ model_a = EmptyModel
    /\ model_b = EmptyModel
    /\ composite = NotComposed

\* model[action] = func on one of the two models.
Model_setitem(which, action, func) ==
    /\ IF which = "a"
       THEN /\ model_a' = DataModel___setitem__(model_a, action, func).model
            /\ UNCHANGED model_b
       ELSE /\ model_b' = DataModel___setitem__(model_b, action, func).model
            /\ UNCHANGED model_a
    /\ composite' = NotComposed
    /\ UNCHANGED <<appVars, resVars, ehVars, fmtVars, parVars, cmpVars, regVars, srvVars, dsVars, ctrVars>>

\* del model[action] on one of the two models.
Model_delitem(which, action) ==
    /\ IF which = "a"
       THEN /\ model_a' = DataModel___delitem__(model_a, action).model
            /\ UNCHANGED model_b
       ELSE /\ model_b' = DataModel___delitem__(model_b, action).model
            /\ UNCHANGED model_a
    /\ composite' = NotComposed
    /\ UNCHANGED <<appVars, resVars, ehVars, fmtVars, parVars, cmpVars, regVars, srvVars, dsVars, ctrVars>>

\* model_a.compose(model_b)
Model_compose ==
    /\ composite' = [made |-> TRUE, self |-> model_a, other |-> model_b,
                     result |-> AbstractDataModel_compose(model_a, model_b)]
    /\ UNCHANGED <<model_a, model_b>>
    /\ UNCHANGED <<appVars, resVars, ehVars, fmtVars, parVars, cmpVars, regVars, srvVars, dsVars, ctrVars>>

NextDM ==
    \/ \E which \in {"a", "b"}, action \in all_actions \cup {"test"},
          func \in ModelFuncs \cup {NotCallable} :
          Model_setitem(which, action, func)
    \/ \E which \in {"a", "b"}, action \in all_actions \cup {"test"} :
          Model_delitem(which, action)
    \/ Model_compose

\* C10: for any two data models A and B, A.compose(B) has the operations of
\* both; an operation of A, whether B has it too or not, has A's handler
\* (the same function, never B's), an operation of B alone has B's handler,
\* and A and B are as they were before.
C10_ComposeSelfWins ==
    composite.made =>
        /\ DOMAIN composite.result = (DOMAIN model_a) \cup (DOMAIN model_b)
        /\ \A k \in DOMAIN model_a : composite.result[k] = model_a[k]
        /\ \A k \in (DOMAIN model_b) \ (DOMAIN model_a) :
              composite.result[k] = model_b[k]
        /\ model_a = composite.self
        /\ model_b = composite.other

\* Two models that both define read, with different functions, and one of
\* which alone defines delete, have been composed.
C10_Witness ==
    /\ composite.made
    /\ "read" \in DOMAIN model_a
    /\ "read" \in DOMAIN model_b
    /\ model_a["read"] # model_b["read"]
    /\ "delete" \in (DOMAIN model_b) \ (DOMAIN model_a)
    /\ composite.result["read"] = model_a["read"]

(***************************************************************************)
(* The specifications: one for each part of the program.                   *)
(***************************************************************************)
(***************************************************************************)
(* Formatter.compose, as Dispatcher.dispatch uses it.                      *)
(*   fmt_first      the resource's formatter                               *)
(*   fmt_second     the dispatcher's formatter                             *)
(*   new_formatter  the last dispatch: the formatters after the two, the   *)
(*                  request, the composed formatter and what calling it    *)
(*                  gave                                                   *)
(***************************************************************************)

\* dict.update: the items of `other`, in their order, are set in `d`.
RECURSIVE DictUpdate(_, _)
DictUpdate(d, other) ==
    IF other = <<>> THEN d
    ELSE DictUpdate(DictSet(d, Head(other).key, Head(other).h), Tail(other))

\* A slip: the formatters are folded first to last, so the last one wins.
RECURSIVE Formatter_compose_Forward(_)
Formatter_compose_Forward(formatters) ==
    IF formatters = <<>> THEN EmptyPipe
    ELSE LET inst == formatters[Len(formatters)]
             new == Formatter_compose_Forward(SubSeq(formatters, 1, Len(formatters) - 1))
         IN  [new EXCEPT !.handlers = DictUpdate(@, inst.handlers),
                         !.default = IF inst.default # NoDefault
                                     THEN inst.default ELSE @]

\* Formatter.compose(first, second, *rest), all of them Formatter instances:
\* a new Formatter is updated with each of them, the last one first.
RECURSIVE Formatter_compose(_)
Formatter_compose(formatters) ==
    IF formatters = <<>> THEN EmptyPipe
    ELSE LET inst == Head(formatters)
             new == Formatter_compose(Tail(formatters))
         IN  [new EXCEPT !.handlers = DictUpdate(@, inst.handlers),
                         !.default = IF inst.default # NoDefault
                                     THEN inst.default ELSE @]

\* Dispatcher.__init__: the default formatter of a dispatcher.
DispatcherFormatter ==
    [handlers |-> <<[key |-> <<"text", "plain">>, h |-> <<"func", "str">>]>>,
     default |-> <<"text", "plain">>, pending |-> NoDefault]

\* The formatters that follow the first two in a call of compose.
RestFormatters == {<<>>, <<DispatcherFormatter>>}

\* The requests a composed formatter is called for.
ComposeRequests == {r \in Requests : Len(r.accept) <= 1}

NotComposedFmt ==
    [call |-> "none", rest |-> <<>>, request |-> NoRequest,
     pipe |-> EmptyPipe, out |-> Failed("none")]

InitCmpVars ==
    /\ fmt_first = EmptyPipe
    /\ fmt_second = EmptyPipe
    /\ new_formatter = NotComposedFmt

\* resource.formatter.register(mime_type, handler, default)
Resource_formatter_register(mime_type, handler, default) ==
    /\ fmt_first' = ContentPipe_register(fmt_first, mime_type, handler, default).pipe
    /\ new_formatter' = NotComposedFmt
    /\ UNCHANGED fmt_second
    /\ UNCHANGED <<appVars, resVars, ehVars, fmtVars, parVars, dmVars, regVars, srvVars, dsVars, ctrVars>>

\* dispatcher.formatter.register(mime_type, handler, default)
Dispatcher_formatter_register(mime_type, handler, default) ==
    /\ fmt_second' = ContentPipe_register(fmt_second, mime_type, handler, default).pipe
    /\ new_formatter' = NotComposedFmt
    /\ UNCHANGED fmt_first
    /\ UNCHANGED <<appVars, resVars, ehVars, fmtVars, parVars, dmVars, regVars, srvVars, dsVars, ctrVars>>

\* Dispatcher.dispatch, formatting: the resource's formatter is composed
\* with the dispatcher's and the result is called with the data.  Neither
\* formatter is changed, so one call is looked at after each registration.
Dispatcher_format(rest, request) ==
    /\ new_formatter.call = "none"
    /\ LET format == Formatter_compose(<<fmt_first, fmt_second>> \o rest)
       IN  new_formatter' =
               [call |-> "compose", rest |-> rest, request |-> request,
                pipe |-> format,
                out |-> ContentPipe___call__(
                            Formatter_choose_best_handler(format, request))]
    /\ UNCHANGED <<fmt_first, fmt_second>>
    /\ UNCHANGED <<appVars, resVars, ehVars, fmtVars, parVars, dmVars, regVars, srvVars, dsVars, ctrVars>>

NextCompose ==
    \/ \E mime_type \in MimeTypes, handler \in PipeFuncs, default \in BOOLEAN :
          Resource_formatter_register(mime_type, handler, default)
    \/ \E mime_type \in MimeTypes, handler \in PipeFuncs, default \in BOOLEAN :
          Dispatcher_formatter_register(mime_type, handler, default)
    \/ \E rest \in RestFormatters, request \in ComposeRequests :
          Dispatcher_format(rest, request)

\* The formatters given to compose in the last dispatch, in argument order.
ComposeArgs == <<fmt_first, fmt_second>> \o new_formatter.rest

\* The handler that the earliest argument holding media type k has for it.
EarliestHandler(args, k) ==
    LET i == CHOOSE i \in 1..Len(args) :
                 /\ k \in Keys(args[i].handlers)
                 /\ \A j \in 1..(i - 1) : k \notin Keys(args[j].handlers)
    IN  Lookup(args[i].handlers, k)

\* The default of the first argument that declares one, NoDefault if none does.
FirstDefault(args) ==
    IF \A i \in 1..Len(args) : args[i].default = NoDefault
    THEN NoDefault
    ELSE LET i == CHOOSE i \in 1..Len(args) :
                      /\ args[i].default # NoDefault
                      /\ \A j \in 1..(i - 1) : args[j].default = NoDefault
         IN  args[i].default

\* C16: the formatter that compose gives holds every media type of its
\* arguments, each with the handler of the earliest argument that has it,
\* and its default is that of the first argument that declares one; in
\* dispatch the resource's formatter is the first argument and the
\* dispatcher's the second.
C16_ComposeEarliestWins ==
    new_formatter.call = "compose" =>
        /\ Keys(new_formatter.pipe.handlers) =
               UNION {Keys(ComposeArgs[i].handlers) : i \in 1..Len(ComposeArgs)}
        /\ \A k \in Keys(new_formatter.pipe.handlers) :
               Lookup(new_formatter.pipe.handlers, k) = EarliestHandler(ComposeArgs, k)
        /\ new_formatter.pipe.default = FirstDefault(ComposeArgs)

\* Both formatters have a handler for text/plain, different ones, and each
\* declares a default, different ones; a third formatter follows.
C16_Witness ==
    /\ new_formatter.call = "compose"
    /\ <<"text", "plain">> \in Keys(fmt_first.handlers)
    /\ <<"text", "plain">> \in Keys(fmt_second.handlers)
    /\ Lookup(fmt_first.handlers, <<"text", "plain">>) #
           Lookup(fmt_second.handlers, <<"text", "plain">>)
    /\ fmt_first.default # NoDefault
    /\ fmt_second.default # NoDefault
    /\ fmt_first.default # fmt_second.default
    /\ new_formatter.rest # <<>>

\* The quality the Accept header gives media type k: that of the best item
\* matching it, 0 if none does.
ClientQuality(request, k) ==
    LET qs == {request.accept[i].quality : i \in
                  {j \in 1..Len(request.accept) :
                      MIMEAccept__value_matches(k, request.accept[j].value)}}
    IN  IF qs = {} THEN 0 ELSE CHOOSE q \in qs : \A o \in qs : o <= q

\* The registered media types the client prefers most.
MostPreferred(pipe, request) ==
    {k \in Keys(pipe.handlers) :
        /\ ClientQuality(request, k) > 0
        /\ \A j \in Keys(pipe.handlers) :
               ClientQuality(request, j) <= ClientQuality(request, k)}

\* The place of media type k among the composed formatters: the earliest
\* argument that has it, and its place in that argument's handlers.
ComposedPlace(args, k) ==
    LET i == CHOOSE i \in 1..Len(args) :
                 /\ k \in Keys(args[i].handlers)
                 /\ \A j \in 1..(i - 1) : k \notin Keys(args[j].handlers)
    IN  <<i, IndexOf(args[i].handlers, k)>>

PlaceBefore(a, b) == a[1] < b[1] \/ (a[1] = b[1] /\ a[2] <= b[2])

\* C18: among the registered media types that the Accept header prefers
\* equally, formatting uses the one registered earlier, and across composed
\* formatters the one of the earlier argument (the resource's before the
\* dispatcher's).
C18_TiesByRegistrationOrder ==
    (/\ new_formatter.call = "compose"
     /\ new_formatter.request.has_accept
     /\ MostPreferred(new_formatter.pipe, new_formatter.request) # {})
        => LET best == MostPreferred(new_formatter.pipe, new_formatter.request)
               mime_type == CHOOSE k \in best : \A j \in best :
                                PlaceBefore(ComposedPlace(ComposeArgs, k),
                                            ComposedPlace(ComposeArgs, j))
           IN  /\ new_formatter.out.status = "returned"
               /\ new_formatter.out.mime = mime_type
               /\ new_formatter.out.h = EarliestHandler(ComposeArgs, mime_type)

(***************************************************************************)
(* The registry of a Dispatcher: resources, routes and build_rules.        *)
(*   objects    the Resource objects created so far, each with its name    *)
(*              and the methods its model supports; a resource is referred *)
(*              to by its place in this sequence                           *)
(*   resources  Dispatcher.resources, from name to resource                *)
(*   routes     Dispatcher.routes: (resource, rule string, rule arguments) *)
(*              and, for reference, the methods the route was declared     *)
(*              with and how many times build_rules has gone over it       *)
(*   endpoints  Dispatcher.endpoints, from endpoint to resource            *)
(*   built      the calls of build_rules so far: how many, and the rules   *)
(*              and warnings of the last one                               *)
(***************************************************************************)
MaxResources == 2

MaxRoutes == 2

\* Resource names: given with name=..., or "{module}.{qualname}" of the
\* wrapped function, which two functions (two lambdas) can share.
ResourceNames == {"mod.f", "mod.<lambda>"}

\* What a resource's model supports.
SupportedSets == {{"GET"}, {"GET", "DELETE"}}

\* The methods argument of a route: absent, or a list of strings.
NoMethods == {"<absent>"}

DeclaredMethods == {NoMethods, {"get"}, {"get", "post", "delete"}}

\* str.upper
upper(m) ==
    CASE m = "get" -> "GET"
      [] m = "post" -> "POST"
      [] m = "delete" -> "DELETE"
      [] OTHER -> m

NoEndpoint == "<absent>"

NotBuilt == [count |-> 0, rules |-> <<>>, warnings |-> {}]

InitRegVars ==
    /\ objects = <<>>
    /\ resources = <<>>
    /\ routes = <<>>
    /\ endpoints = <<>>
    /\ built = NotBuilt

\* Dispatcher.resource(wrapped, **args): a new Resource is created and put
\* in resources under its name.
Dispatcher_resource(name, supported) ==
    /\ Len(objects) < MaxResources
    /\ objects' = Append(objects, [name |-> name, supported |-> supported])
    /\ resources' = DictSet(resources, name, Len(objects) + 1)
    /\ UNCHANGED <<routes, endpoints, built>>
    /\ UNCHANGED <<appVars, resVars, ehVars, fmtVars, parVars, dmVars, cmpVars, srvVars, dsVars, ctrVars>>

\* Dispatcher.route(resource, rulestr, **ruleargs) for a Resource.  Every
\* route has a rule string of its own, here its number.
Dispatcher_route(res, methods) ==
    /\ Len(routes) < MaxRoutes
    /\ res \in 1..Len(objects)
    /\ routes' = Append(routes, [resource |-> res, string |-> Len(routes) + 1,
                                 args |-> [methods |-> methods,
                                           endpoint |-> NoEndpoint],
                                 declared |-> methods, builds |-> 0])
    /\ UNCHANGED <<objects, resources, endpoints, built>>
    /\ UNCHANGED <<appVars, resVars, ehVars, fmtVars, parVars, dmVars, cmpVars, srvVars, dsVars, ctrVars>>

\* werkzeug's Rule(string, methods=..., endpoint=...): the methods in upper
\* case, and HEAD with them when GET is among them.
Rule(string, args) ==
    [rule |-> string, endpoint |-> args.endpoint,
     methods |-> {upper(m) : m \in args.methods}
                 \cup (IF "GET" \in {upper(m) : m \in args.methods}
                       THEN {"HEAD"} ELSE {})]

\* build_rules, before its loop: endpoints is cleared and resources is
\* replaced by a dict built from its values.
BuildRules_Begin(reg) ==
    [reg EXCEPT !.endpoints = <<>>,
                !.resources = DictUpdate(<<>>,
                    [i \in 1..Len(reg.resources) |->
                        [key |-> objects[reg.resources[i].h].name,
                         h |-> reg.resources[i].h]])]

\* A slip: the rule is given the methods that were declared, unfiltered.
BuildRules_Route_Unfiltered(reg, i) ==
    LET route == reg.routes[i]
        res == route.resource
        endpoint == IF route.args.endpoint = NoEndpoint
                    THEN objects[res].name ELSE route.args.endpoint
        supported_methods == objects[res].supported
        restricted_methods == IF route.args.methods = NoMethods
                              THEN supported_methods
                              ELSE {upper(m) : m \in route.args.methods}
        args == [methods |-> restricted_methods, endpoint |-> endpoint]
    IN  [reg |-> [reg EXCEPT !.endpoints = DictSet(@, endpoint, res),
                             !.routes[i].args = args,
                             !.routes[i].builds = @ + 1],
         rule |-> Rule(route.string, args),
         warning |-> restricted_methods \ supported_methods # {}]

\* build_rules, one turn of its loop: the route's arguments get their
\* endpoint and their methods (the dict in routes is changed in place), the
\* endpoint is entered in endpoints, a warning is given for declared
\* methods that the resource does not support, and the rule is yielded.
BuildRules_Route(reg, i) ==
    LET route == reg.routes[i]
        res == route.resource
        endpoint == IF route.args.endpoint = NoEndpoint
                    THEN objects[res].name ELSE route.args.endpoint
        supported_methods == objects[res].supported
        restricted_methods == IF route.args.methods = NoMethods
                              THEN supported_methods
                              ELSE {upper(m) : m \in route.args.methods}
        args == [methods |-> supported_methods \cap restricted_methods,
                 endpoint |-> endpoint]
    IN  [reg |-> [reg EXCEPT !.endpoints = DictSet(@, endpoint, res),
                             !.routes[i].args = args,
                             !.routes[i].builds = @ + 1],
         rule |-> Rule(route.string, args),
         warning |-> restricted_methods \ supported_methods # {}]

\* The loop of build_rules from route i on, run to its end: the registry,
\* the rules yielded and the routes a warning was given for.
RECURSIVE BuildRules_Loop(_, _, _, _)
BuildRules_Loop(reg, i, rules, warnings) ==
    IF i > Len(reg.routes)
    THEN [reg |-> reg, rules |-> rules, warnings |-> warnings]
    ELSE LET r == BuildRules_Route(reg, i)
         IN  BuildRules_Loop(r.reg, i + 1, Append(rules, r.rule),
                             IF r.warning THEN warnings \cup {i} ELSE warnings)

Registry == [resources |-> resources, routes |-> routes, endpoints |-> endpoints]

\* Dispatcher.get_resource(rule)
Dispatcher_get_resource(reg, rule) ==
    IF rule.endpoint \in Keys(reg.endpoints)
    THEN [raised |-> "none", resource |-> Lookup(reg.endpoints, rule.endpoint)]
    ELSE [raised |-> "KeyError", resource |-> 0]

\* list(dispatcher.build_rules()): the generator is run to its end.  A
\* third call changes nothing that the second has not changed.
Dispatcher_build_rules ==
    /\ built.count < 2
    /\ LET r == BuildRules_Loop(BuildRules_Begin(Registry), 1, <<>>, {})
       IN  /\ resources' = r.reg.resources
           /\ routes' = r.reg.routes
           /\ endpoints' = r.reg.endpoints
           /\ built' = [count |-> built.count + 1, rules |-> r.rules,
                        warnings |-> r.warnings]
    /\ UNCHANGED objects
    /\ UNCHANGED <<appVars, resVars, ehVars, fmtVars, parVars, dmVars, cmpVars, srvVars, dsVars, ctrVars>>

NextRules ==
    \/ \E name \in ResourceNames, supported \in SupportedSets :
          Dispatcher_resource(name, supported)
    \/ \E res \in 1..MaxResources, methods \in DeclaredMethods :
          Dispatcher_route(res, methods)
    \/ Dispatcher_build_rules

(***************************************************************************)
(* Concurrent requests (App.build_context, findig.context.ctx, url_map).   *)
(*   serving     for each worker thread, where it is in the request it     *)
(*               handles and its local variables                           *)
(*   storage     ctx, a werkzeug Local: for each ident, the attributes     *)
(*               stored under it, each with the request that stored it     *)
(*   url_map     the cached value of App.url_map, NoMap before the first   *)
(*               access has returned                                       *)
(*   served      the number of requests received so far                    *)
(*   reg_writes  the tables of the dispatcher that have been written to    *)
(*               while a request was handled                               *)
(***************************************************************************)
Workers == {1, 2}

MaxServed == 2

NoMap == [cached |-> FALSE, rules |-> <<>>]

Idle ==
    [pc |-> "idle", req |-> 0, i |-> 0, rules |-> <<>>, map |-> <<>>,
     rule |-> 0, seen |-> {}, raised |-> "none"]

InitSrvVars ==
    /\ serving = [t \in Workers |-> Idle]
    /\ storage = [t \in Workers |-> {}]
    /\ url_map = NoMap
    /\ served = 0
    /\ reg_writes = {}

\* A slip: ctx is one object for all threads.
Local_ident_Shared(t) == 1

\* werkzeug.local.Local keeps its attributes under get_ident(), the id of
\* the current thread.
Local_ident(t) == t

\* setattr(ctx, name, value) by thread t for its request.
Local___setattr__(st, t, names) ==
    [st EXCEPT ![Local_ident(t)] =
        {a \in @ : a[1] \notin names} \cup {<<n, serving[t].req>> : n \in names}]

\* local_manager.cleanup() by thread t: release_local drops what is stored
\* under the thread's ident.
LocalManager_cleanup(st, t) ==
    [st EXCEPT ![Local_ident(t)] = {}]

\* Dispatcher.route(function, rulestr) at start-up: a resource is made of
\* the function, named after it, and the route is recorded.
App_route(name) ==
    /\ served = 0
    /\ Len(routes) < MaxRoutes
    /\ Len(objects) < MaxResources
    /\ objects' = Append(objects, [name |-> name, supported |-> {"GET"}])
    /\ resources' = DictSet(resources, name, Len(objects) + 1)
    /\ routes' = Append(routes, [resource |-> Len(objects) + 1,
                                 string |-> Len(routes) + 1,
                                 args |-> [methods |-> NoMethods,
                                           endpoint |-> NoEndpoint],
                                 declared |-> NoMethods, builds |-> 0])
    /\ UNCHANGED <<endpoints, built, srvVars>>
    /\ UNCHANGED <<appVars, resVars, ehVars, fmtVars, parVars, dmVars, cmpVars, dsVars, ctrVars>>

\* A request arrives and is given to a free worker thread.
Serve_Start(t) ==
    /\ serving[t].pc \in {"idle", "done"}
    /\ served < MaxServed
    /\ Len(routes) > 0
    /\ served' = served + 1
    /\ serving' = [serving EXCEPT ![t] =
                      [Idle EXCEPT !.pc = "app", !.req = served + 1]]
    /\ UNCHANGED <<storage, url_map, reg_writes, regVars>>
    /\ UNCHANGED <<appVars, resVars, ehVars, fmtVars, parVars, dmVars, cmpVars, dsVars, ctrVars>>

\* build_context: ctx.app = self
BuildContext_App(t) ==
    /\ serving[t].pc = "app"
    /\ storage' = Local___setattr__(storage, t, {"app"})
    /\ serving' = [serving EXCEPT ![t].pc = "url_map"]
    /\ UNCHANGED <<url_map, served, reg_writes, regVars>>
    /\ UNCHANGED <<appVars, resVars, ehVars, fmtVars, parVars, dmVars, cmpVars, dsVars, ctrVars>>

\* self.url_map, a cached_property: the cached value if there is one,
\* otherwise build_rules is started.
UrlMap_Get(t) ==
    /\ serving[t].pc = "url_map"
    /\ serving' = [serving EXCEPT ![t] =
                      IF url_map.cached
                      THEN [@ EXCEPT !.map = url_map.rules, !.pc = "bind"]
                      ELSE [@ EXCEPT !.pc = "build_rules"]]
    /\ UNCHANGED <<storage, url_map, served, reg_writes, regVars>>
    /\ UNCHANGED <<appVars, resVars, ehVars, fmtVars, parVars, dmVars, cmpVars, dsVars, ctrVars>>

\* build_rules, run by the thread that found no cached url_map: the lines
\* before the loop.
UrlMap_BuildRules_Begin(t) ==
    /\ serving[t].pc = "build_rules"
    /\ LET reg == BuildRules_Begin(Registry)
       IN  /\ resources' = reg.resources
           /\ endpoints' = reg.endpoints
    /\ reg_writes' = reg_writes \cup {"resources", "endpoints"}
    /\ serving' = [serving EXCEPT ![t] = [@ EXCEPT !.i = 1, !.rules = <<>>,
                                                   !.pc = "rules"]]
    /\ UNCHANGED <<objects, routes, built, storage, url_map, served>>
    /\ UNCHANGED <<appVars, resVars, ehVars, fmtVars, parVars, dmVars, cmpVars, dsVars, ctrVars>>

\* One turn of the loop of build_rules, or its end: Map(rules) becomes the
\* cached url_map.
UrlMap_BuildRules_Route(t) ==
    /\ serving[t].pc = "rules"
    /\ IF serving[t].i <= Len(routes)
       THEN LET r == BuildRules_Route(Registry, serving[t].i)
            IN  /\ routes' = r.reg.routes
                /\ endpoints' = r.reg.endpoints
                /\ reg_writes' = reg_writes \cup {"routes", "endpoints"}
                /\ serving' = [serving EXCEPT ![t] =
                                  [@ EXCEPT !.i = @ + 1,
                                            !.rules = Append(@, r.rule)]]
                /\ UNCHANGED url_map
       ELSE /\ url_map' = [cached |-> TRUE, rules |-> serving[t].rules]
            /\ serving' = [serving EXCEPT ![t] =
                              [@ EXCEPT !.map = serving[t].rules, !.pc = "bind"]]
            /\ UNCHANGED <<routes, endpoints, reg_writes>>
    /\ UNCHANGED <<objects, resources, built, storage, served>>
    /\ UNCHANGED <<appVars, resVars, ehVars, fmtVars, parVars, dmVars, cmpVars, dsVars, ctrVars>>

\* build_context: ctx.url_adapter and ctx.request are set, and
\* adapter.match finds the rule of the request's path, rule number `path`
\* of the map, or raises NotFound (path 0).
BuildContext_Bind(t, path) ==
    /\ serving[t].pc = "bind"
    /\ path \in 0..Len(serving[t].map)
    /\ storage' = Local___setattr__(storage, t, {"url_adapter", "request"})
    /\ serving' = [serving EXCEPT ![t] =
                      IF path = 0
                      THEN [@ EXCEPT !.raised = "NotFound", !.pc = "done"]
                      ELSE [@ EXCEPT !.rule = path, !.pc = "resolve"]]
    /\ UNCHANGED <<url_map, served, reg_writes, regVars>>
    /\ UNCHANGED <<appVars, resVars, ehVars, fmtVars, parVars, dmVars, cmpVars, dsVars, ctrVars>>

\* build_context: ctx.url_values, ctx.dispatcher and, with the resource that
\* get_resource gives for the rule, ctx.resource are set.
BuildContext_Resolve(t) ==
    /\ serving[t].pc = "resolve"
    /\ LET found == Dispatcher_get_resource(Registry,
                                            serving[t].map[serving[t].rule])
       IN  IF found.raised # "none"
           THEN /\ storage' = Local___setattr__(storage, t,
                                                {"url_values", "dispatcher"})
                /\ serving' = [serving EXCEPT ![t] =
                                  [@ EXCEPT !.raised = found.raised, !.pc = "done"]]
           ELSE /\ storage' = Local___setattr__(storage, t,
                                   {"url_values", "dispatcher", "resource"})
                /\ serving' = [serving EXCEPT ![t].pc = "body"]
    /\ UNCHANGED <<url_map, served, reg_writes, regVars>>
    /\ UNCHANGED <<appVars, resVars, ehVars, fmtVars, parVars, dmVars, cmpVars, dsVars, ctrVars>>

\* The request is dispatched: the code that handles it reads ctx.  `seen`
\* is what it can read: the attributes and the requests that stored them.
Serve_Dispatch(t) ==
    /\ serving[t].pc = "body"
    /\ serving' = [serving EXCEPT ![t] =
                      [@ EXCEPT !.seen = storage[Local_ident(t)], !.pc = "exit"]]
    /\ UNCHANGED <<storage, url_map, served, reg_writes, regVars>>
    /\ UNCHANGED <<appVars, resVars, ehVars, fmtVars, parVars, dmVars, cmpVars, dsVars, ctrVars>>

\* The request context is left: App.__cleanup releases the thread's ctx.
Serve_Cleanup(t) ==
    /\ serving[t].pc = "exit"
    /\ storage' = LocalManager_cleanup(storage, t)
    /\ serving' = [serving EXCEPT ![t].pc = "done"]
    /\ UNCHANGED <<url_map, served, reg_writes, regVars>>
    /\ UNCHANGED <<appVars, resVars, ehVars, fmtVars, parVars, dmVars, cmpVars, dsVars, ctrVars>>

NextServe ==
    \/ \E name \in ResourceNames : App_route(name)
    \/ \E t \in Workers :
          \/ Serve_Start(t)
          \/ BuildContext_App(t)
          \/ UrlMap_Get(t)
          \/ UrlMap_BuildRules_Begin(t)
          \/ UrlMap_BuildRules_Route(t)
          \/ \E path \in 0..MaxRoutes : BuildContext_Bind(t, path)
          \/ BuildContext_Resolve(t)
          \/ Serve_Dispatch(t)
          \/ Serve_Cleanup(t)

InFlight(t) == serving[t].pc \notin {"idle", "done"}

\* The attributes that build_context has stored on ctx when a thread is at pc.
StoredAt(pc) ==
    CASE pc \in {"url_map", "build_rules", "rules", "bind"} -> {"app"}
      [] pc = "resolve" -> {"app", "url_adapter", "request"}
      [] pc \in {"body", "exit"} ->
            {"app", "url_adapter", "request", "url_values", "dispatcher", "resource"}
      [] OTHER -> {}

\* C22: for any interleaving of two requests handled at the same time,
\* what a request has stored on ctx stays there until its own cleanup
\* (the other's cleanup does not clear it), and what a request can read on
\* ctx was never stored by the other.
C22_ContextIsolated ==
    \A t \in Workers :
        /\ InFlight(t) =>
               \A k \in StoredAt(serving[t].pc) :
                   <<k, serving[t].req>> \in storage[Local_ident(t)]
        /\ \A u \in Workers \ {t} :
               (InFlight(t) /\ InFlight(u)) =>
                   \A a \in storage[Local_ident(t)] : a[2] # serving[u].req
        /\ serving[t].pc = "exit" =>
               \A a \in serving[t].seen : a[2] = serving[t].req

\* Two requests in their bodies at the same time, one of them having read
\* ctx already.
C22_Witness ==
    /\ serving[1].pc = "exit"
    /\ serving[2].pc = "body"
    /\ serving[1].seen # {}
    /\ storage[Local_ident(2)] # {}

\* C23: no step of handling a request writes to the resources, routes or
\* endpoints of the dispatcher, the first requests served included, so
\* that no request finds its resource missing from them.
C23_RegistryReadOnly ==
    /\ reg_writes = {}
    /\ \A t \in Workers : serving[t].raised # "KeyError"

\* The methods route i was declared with, in upper case.
Declared(i) == {upper(m) : m \in routes[i].declared}

\* C24 as stated: for every route declared with a method list, build_rules
\* gives a warning if a declared method is not supported by the resource,
\* and the methods of the rule are exactly the declared methods
\* that the resource supports.
C24_MethodsExactlyIntersection ==
    \A i \in 1..Len(built.rules) :
        routes[i].declared # NoMethods =>
            /\ Declared(i) \ objects[routes[i].resource].supported # {}
                   => i \in built.warnings
            /\ built.rules[i].methods =
                   Declared(i) \cap objects[routes[i].resource].supported

\* C24, as the code has it: the first build_rules to go over the route
\* gives the warning, a later one does not; the rule is made with the
\* declared methods that the resource supports, to which Rule adds HEAD
\* when GET is among them.
C24_MethodsWarnedAndFiltered ==
    \A i \in 1..Len(built.rules) :
        routes[i].declared # NoMethods =>
            LET methods == Declared(i) \cap objects[routes[i].resource].supported
            IN  /\ i \in built.warnings <=>
                       /\ Declared(i) \ objects[routes[i].resource].supported # {}
                       /\ routes[i].builds = 1
                /\ routes[i].args.methods = methods
                /\ built.rules[i].methods =
                       methods \cup (IF "GET" \in methods THEN {"HEAD"} ELSE {})

\* A route declared with get, post and delete for a resource that supports
\* GET and DELETE: a warning, and a rule for GET, HEAD and DELETE.
C24_Witness ==
    /\ built.count = 1
    /\ \E i \in 1..Len(built.rules) :
          /\ routes[i].declared = {"get", "post", "delete"}
          /\ objects[routes[i].resource].supported = {"GET", "DELETE"}
          /\ i \in built.warnings
          /\ built.rules[i].methods = {"GET", "HEAD", "DELETE"}

\* C30: after build_rules, get_resource gives, for the rule of every route,
\* the resource that the route was registered with.
C30_RuleLeadsToItsResource ==
    \A i \in 1..Len(built.rules) :
        Dispatcher_get_resource(Registry, built.rules[i]) =
            [raised |-> "none", resource |-> routes[i].resource]

(***************************************************************************)
(* findig.tools.dataset: views of a data set and fetch.                    *)
(*   people     the records of the backend data set, in its order          *)
(*   cur_view   the view that was built last: its layers, the innermost    *)
(*              first; <<>> is the backend data set itself                 *)
(*   lazy_rec   the placeholder record handed out by the last fetch        *)
(*   ds_last    the last call: what it returned and how many times it      *)
(*              iterated the backend                                       *)
(* One placeholder record is followed at a time: while it is there no new  *)
(* view is built.                                                          *)
(***************************************************************************)
MaxRecords == 2
MaxNesting == 2

Ages == {16, 32}

\* ctx.request.method while the call is made; NoCtxRequest outside a request.
NoCtxRequest == "<none>"
CtxRequests == {NoCtxRequest, "GET", "HEAD", "POST"}

FilterSpecs == [age : Ages]

NoLazy == [made |-> FALSE, ds |-> <<>>, spec |-> <<>>, cached |-> <<>>]

NoCall ==
    [call |-> "none", request |-> NoCtxRequest, spec |-> <<>>, reads |-> 0,
     out |-> <<>>]

\* What a call gives when it is not a record: an exception, a placeholder.
Raises(ty) == [raised |-> ty]

Placeholder == [class |-> "LazyRecord"]

InitDsVars ==
    /\ people = <<>>
    /\ cur_view = <<>>
    /\ lazy_rec = NoLazy
    /\ ds_last = NoCall

\* FilteredDataSet.check_match(record, spec) for a spec of one field.
FilteredDataSet_check_match(rec, fs) == rec.age = fs.age

\* itertools.islice(recs, start, stop)
islice(recs, start, stop) ==
    SubSeq(recs, start + 1, IF stop < Len(recs) THEN stop ELSE Len(recs))

\* sorted(recs, key=keyfunc, reverse=rv) for the key ('age',): a stable
\* sort, also when reversed.
RECURSIVE PySorted(_, _)
PySorted(recs, rv) ==
    IF recs = <<>> THEN <<>>
    ELSE LET n == Len(recs)
             x == recs[n]
             before == PySorted(SubSeq(recs, 1, n - 1), rv)
             stays(e) == IF rv THEN e.age >= x.age ELSE e.age <= x.age
             k == Cardinality({i \in 1..Len(before) :
                                  \A j \in 1..i : stays(before[j])})
         IN  SubSeq(before, 1, k) \o <<x>> \o SubSeq(before, k + 1, Len(before))

\* iter(dataset): the records the data set gives and the number of times
\* the backend's __iter__ ran for it.
RECURSIVE Iterate(_, _)
Iterate(recs, dataset) ==
    IF dataset = <<>> THEN [records |-> recs, reads |-> 1]
    ELSE LET top == dataset[Len(dataset)]
             ds == Iterate(recs, SubSeq(dataset, 1, Len(dataset) - 1))
         IN  CASE top.kind = "filtered" ->
                    [ds EXCEPT !.records =
                        SelectSeq(@, LAMBDA r : FilteredDataSet_check_match(r, top.fs))]
               [] top.kind = "slice" ->
                    [ds EXCEPT !.records = islice(@, top.start, top.stop)]
               [] top.kind = "sorted" ->
                    [ds EXCEPT !.records = PySorted(@, top.rv)]

\* A slip: the sorted view sorts its data set when it is constructed.
OrderedDataSet___init___Eager(recs, dataset, ss, rv) ==
    [view |-> Append(dataset, [kind |-> "sorted", ss |-> ss, rv |-> rv]),
     reads |-> Iterate(recs, dataset).reads]

\* The constructors of the views: each keeps its data set and arguments.
FilteredDataSet___init__(recs, dataset, fs) ==
    [view |-> Append(dataset, [kind |-> "filtered", fs |-> fs]), reads |-> 0]

DataSetSlice___init__(recs, dataset, start, stop) ==
    [view |-> Append(dataset, [kind |-> "slice", start |-> start, stop |-> stop]),
     reads |-> 0]

OrderedDataSet___init__(recs, dataset, ss, rv) ==
    [view |-> Append(dataset, [kind |-> "sorted", ss |-> ss, rv |-> rv]),
     reads |-> 0]

\* AbstractDataSet.fetch_now(**search_spec): the first record of the data
\* set that matches, LookupError if the loop ends without one.
RECURSIVE FirstMatch(_, _)
FirstMatch(recs, spec) ==
    IF recs = <<>> THEN [raised |-> "LookupError", record |-> <<>>]
    ELSE IF FilteredDataSet_check_match(Head(recs), spec)
    THEN [raised |-> "none", record |-> Head(recs)]
    ELSE FirstMatch(Tail(recs), spec)

AbstractDataSet_fetch_now(recs, dataset, spec) ==
    LET it == Iterate(recs, dataset)
        m == FirstMatch(it.records, spec)
    IN  [raised |-> m.raised, record |-> m.record, reads |-> it.reads,
         lazy |-> NoLazy]

\* A slip: fetch searches at once whatever the request is.
AbstractDataSet_fetch_Always(recs, dataset, spec, request) ==
    AbstractDataSet_fetch_now(recs, dataset, spec)

\* AbstractDataSet.fetch(**search_spec) while ctx.request is `request`.
AbstractDataSet_fetch(recs, dataset, spec, request) ==
    IF request # NoCtxRequest /\ request \in {"GET", "HEAD"}
    THEN AbstractDataSet_fetch_now(recs, dataset, spec)
    ELSE [raised |-> "none", record |-> <<>>, reads |-> 0,
          lazy |-> [made |-> TRUE, ds |-> dataset, spec |-> spec, cached |-> <<>>]]

\* MutableDataSet.add(data) of the backend (the data set of the tests).
MockDataSet_add(age) ==
    /\ Len(people) < MaxRecords
    /\ people' = Append(people, [id |-> Len(people) + 1, age |-> age])
    /\ ds_last' = [NoCall EXCEPT !.call = "add"]
    /\ UNCHANGED <<cur_view, lazy_rec>>
    /\ UNCHANGED <<appVars, resVars, ehVars, fmtVars, parVars, dmVars, cmpVars, regVars, srvVars, ctrVars>>

Built(call, made) ==
    /\ lazy_rec = NoLazy
    /\ Len(cur_view) < MaxNesting
    /\ cur_view' = made.view
    /\ ds_last' = [NoCall EXCEPT !.call = call, !.reads = made.reads,
                                 !.out = made.view]
    /\ UNCHANGED <<people, lazy_rec>>
    /\ UNCHANGED <<appVars, resVars, ehVars, fmtVars, parVars, dmVars, cmpVars, regVars, srvVars, ctrVars>>

\* view.filtered(**search_spec)
AbstractDataSet_filtered(fs) ==
    Built("filtered", FilteredDataSet___init__(people, cur_view, fs))

\* view.limit(count, offset)
AbstractDataSet_limit(count, offset) ==
    Built("limit", DataSetSlice___init__(people, cur_view, offset, offset + count))

\* view.sorted(*sort_spec, descending=descending)
AbstractDataSet_sorted(ss, descending) ==
    Built("sorted", OrderedDataSet___init__(people, cur_view, ss, descending))

\* The view is dropped; the next one is built from the backend data set.
DropView ==
    /\ cur_view # <<>> \/ lazy_rec # NoLazy
    /\ cur_view' = <<>>
    /\ lazy_rec' = NoLazy
    /\ ds_last' = NoCall
    /\ UNCHANGED people
    /\ UNCHANGED <<appVars, resVars, ehVars, fmtVars, parVars, dmVars, cmpVars, regVars, srvVars, ctrVars>>

\* list(view)
View___iter__ ==
    /\ ds_last.call # "iter"
    /\ LET it == Iterate(people, cur_view)
       IN  ds_last' = [NoCall EXCEPT !.call = "iter", !.reads = it.reads,
                                     !.out = it.records]
    /\ UNCHANGED <<people, cur_view, lazy_rec>>
    /\ UNCHANGED <<appVars, resVars, ehVars, fmtVars, parVars, dmVars, cmpVars, regVars, srvVars, ctrVars>>

\* view.fetch(**search_spec) while ctx.request is `request`.
View_fetch(spec, request) ==
    /\ lazy_rec = NoLazy
    /\ LET f == AbstractDataSet_fetch(people, cur_view, spec, request)
       IN  /\ lazy_rec' = f.lazy
           /\ ds_last' = [call |-> "fetch", request |-> request, spec |-> spec,
                          reads |-> f.reads,
                          out |-> IF f.raised # "none" THEN <<Raises(f.raised)>>
                                  ELSE IF f.lazy.made THEN <<Placeholder>>
                                  ELSE <<f.record>>]
    /\ UNCHANGED <<people, cur_view>>
    /\ UNCHANGED <<appVars, resVars, ehVars, fmtVars, parVars, dmVars, cmpVars, regVars, srvVars, ctrVars>>

\* record[field] on the placeholder: AbstractRecord.__getitem__ reads
\* cached_data, which LazyRecord.read takes from the cached property
\* `record`, computed by the deferred fetch_now; an exception caches nothing.
LazyRecord___getitem__ ==
    /\ lazy_rec.made
    /\ IF lazy_rec.cached # <<>>
       THEN /\ ds_last' = [NoCall EXCEPT !.call = "getitem_cached",
                                         !.out = lazy_rec.cached]
            /\ UNCHANGED lazy_rec
       ELSE LET f == AbstractDataSet_fetch_now(people, lazy_rec.ds, lazy_rec.spec)
            IN  /\ lazy_rec' = [lazy_rec EXCEPT !.cached =
                                   IF f.raised = "none" THEN <<f.record>> ELSE <<>>]
                /\ ds_last' = [NoCall EXCEPT !.call = "getitem", !.reads = f.reads,
                                  !.out = IF f.raised # "none" THEN <<Raises(f.raised)>>
                                          ELSE <<f.record>>]
    /\ UNCHANGED <<people, cur_view>>
    /\ UNCHANGED <<appVars, resVars, ehVars, fmtVars, parVars, dmVars, cmpVars, regVars, srvVars, ctrVars>>

NextDataSet ==
    \/ \E age \in Ages : MockDataSet_add(age)
    \/ \E fs \in FilterSpecs : AbstractDataSet_filtered(fs)
    \/ \E count \in {1}, offset \in {0, 1} : AbstractDataSet_limit(count, offset)
    \/ \E descending \in BOOLEAN : AbstractDataSet_sorted("age", descending)
    \/ DropView
    \/ View___iter__
    \/ \E spec \in FilterSpecs, request \in CtxRequests : View_fetch(spec, request)
    \/ LazyRecord___getitem__

\* The records of a sequence that match a spec, in the sequence's order.
Matching(recs, spec) == SelectSeq(recs, LAMBDA r : r.age = spec.age)

\* C25: for every view built by filtered, sorted or limit, on the backend
\* data set or on another view, the call gives the new view without
\* iterating the backend; the backend is iterated only when a view is
\* iterated or a record is fetched from it (once for each such call).
C25_ViewsAreLazy ==
    /\ ds_last.call \in {"filtered", "sorted", "limit"} =>
          /\ ds_last.reads = 0
          /\ ds_last.out = cur_view
          /\ cur_view # <<>>
    /\ ds_last.reads > 0 => ds_last.call \in {"iter", "fetch", "getitem"}
    /\ ds_last.call = "iter" => ds_last.reads = 1

\* A sorted view of a filtered view has just been built over a backend that
\* holds records.
C25_Witness ==
    /\ ds_last.call = "sorted"
    /\ Len(cur_view) = 2
    /\ cur_view[1].kind = "filtered"
    /\ Len(people) = 2

\* C26: fetch inside a GET or HEAD request searches the backend at once and
\* gives the first matching record or raises LookupError; fetch outside a
\* request gives a placeholder without iterating the backend, and the first
\* field access on the placeholder does the search then, LookupError
\* included.
C26_FetchEagerOrDeferred ==
    /\ (ds_last.call = "fetch" /\ ds_last.request \in {"GET", "HEAD"}) =>
          LET found == Matching(Iterate(people, cur_view).records, ds_last.spec)
          IN  /\ ds_last.reads = 1
              /\ ~lazy_rec.made
              /\ ds_last.out = IF found = <<>> THEN <<Raises("LookupError")>>
                               ELSE <<found[1]>>
    /\ (ds_last.call = "fetch" /\ ds_last.request = NoCtxRequest) =>
          /\ ds_last.reads = 0
          /\ ds_last.out = <<Placeholder>>
          /\ lazy_rec.made /\ lazy_rec.cached = <<>>
    /\ ds_last.call = "getitem" =>
          LET found == Matching(Iterate(people, lazy_rec.ds).records, lazy_rec.spec)
          IN  /\ ds_last.reads = 1
              /\ ds_last.out = IF found = <<>> THEN <<Raises("LookupError")>>
                               ELSE <<found[1]>>

\* A placeholder was handed out outside a request over a backend without a
\* match; a record was added, and the first field access found it.
C26_Witness ==
    /\ ds_last.call = "getitem"
    /\ lazy_rec.made
    /\ lazy_rec.cached # <<>>
    /\ lazy_rec.cached[1].id = 2
    /\ people[1].age # lazy_rec.spec.age

(***************************************************************************)
(* findig.tools.counter: a Counter attached to an application.             *)
(*   ctr_logs       the hit log of each resource: its number of hits       *)
(*   ctr_callbacks  the 'before' callbacks, by resource name (CbGlobal for *)
(*                  callbacks registered without a resource)               *)
(*   ctr_hits       the requests counted so far, in order: the resource    *)
(*                  of each and the callbacks that were called on it       *)
(* The counter keeps all hits (duration -1) and has no partitions.         *)
(***************************************************************************)
MaxHits == 3
MaxCallbacks == 1

CtrResources == {"a", "b"}

\* The key of callbacks registered without a resource (None).
CbGlobal == "<None>"

\* An argument that was not given to every().
NotGiven == -1

InitCtrVars ==
    /\ ctr_logs = [r \in CtrResources |-> 0]
    /\ ctr_callbacks = [k \in CtrResources \cup {CbGlobal} |-> <<>>]
    /\ ctr_hits = <<>>

NumCallbacks ==
    Len(ctr_callbacks[CbGlobal]) + Len(ctr_callbacks["a"]) + Len(ctr_callbacks["b"])

\* Counter._register_cb('before', n, callback, args)
Counter__register_cb(cbs, n, callback, key, after, until) ==
    [cbs EXCEPT ![key] = Append(@, [cb |-> callback, n |-> n,
                                    after |-> after, until |-> until])]

\* counter.every(n, callback, after=after, until=until, resource=resource)
Counter_every(n, key, after, until) ==
    /\ ctr_hits = <<>>
    /\ NumCallbacks < MaxCallbacks
    /\ ctr_callbacks' = Counter__register_cb(ctr_callbacks, n, NumCallbacks + 1,
                                             key, after, until)
    /\ UNCHANGED <<ctr_logs, ctr_hits>>
    /\ UNCHANGED <<appVars, resVars, ehVars, fmtVars, parVars, dmVars, cmpVars, regVars, srvVars, dsVars>>

\* The test of _fire_cb_funcs for one callback, `count` being what the hit
\* log gives.
Fires(c, count) ==
    /\ ~(c.until # NotGiven /\ c.until < count)
    /\ ~(c.after # NotGiven /\ count <= c.after)
    /\ (count - (IF c.after # NotGiven THEN c.after ELSE 0) - 1) % c.n = 0

\* Counter._fire_cb_funcs(hit_log, resource, partitions, 'before'): the
\* callbacks of the resource and the callbacks without resource are tested
\* against the count of hit_log, the log of the resource of the request.
Counter__fire_cb_funcs(cbs, hit_log, res) ==
    LET chain == cbs[res] \o cbs[CbGlobal]
    IN  {chain[i].cb : i \in {j \in 1..Len(chain) : Fires(chain[j], hit_log)}}

\* Counter.__call__ up to its yield, as the context manager of a request
\* for `res`: the hit is tracked in the log of the resource and the
\* 'before' callbacks are fired.
Counter___call__(res) ==
    /\ Len(ctr_hits) < MaxHits
    /\ LET hit_log == ctr_logs[res] + 1
       IN  /\ ctr_logs' = [ctr_logs EXCEPT ![res] = hit_log]
           /\ ctr_hits' = Append(ctr_hits,
                  [resource |-> res,
                   called |-> Counter__fire_cb_funcs(ctr_callbacks, hit_log, res)])
    /\ UNCHANGED ctr_callbacks
    /\ UNCHANGED <<appVars, resVars, ehVars, fmtVars, parVars, dmVars, cmpVars, regVars, srvVars, dsVars>>

NextCounter ==
    \/ \E n \in {1, 2}, key \in {CbGlobal, "a"}, after \in {NotGiven, 0, 1},
          until \in {NotGiven, 2} :
          Counter_every(n, key, after, until)
    \/ \E res \in CtrResources : Counter___call__(res)

\* The number of the hits 1..k that count for a callback registered under
\* key: all requests, or the requests for its resource.
HitsCounted(key, k) ==
    Cardinality({i \in 1..k : key = CbGlobal \/ ctr_hits[i].resource = key})

\* C27: a callback registered with every(n, after=a, until=u) is called on
\* hit a+1 and on every nth hit after it, up to and including hit u, and on
\* no other hit; the hits are the requests for the resource it was
\* registered with, and all requests of the application if it was
\* registered without a resource.
C27_EveryNthHit ==
    \A key \in DOMAIN ctr_callbacks : \A i \in 1..Len(ctr_callbacks[key]) :
        LET c == ctr_callbacks[key][i]
            a == IF c.after # NotGiven THEN c.after ELSE 0
        IN  \A k \in 1..Len(ctr_hits) :
                (key = CbGlobal \/ ctr_hits[k].resource = key) =>
                    LET hit == HitsCounted(key, k)
                    IN  (c.cb \in ctr_hits[k].called) <=>
                            (/\ hit > a
                             /\ (c.until # NotGiven => hit <= c.until)
                             /\ (hit - a - 1) % c.n = 0)

Init ==
    /\ InitAppVars
    /\ InitResVars
    /\ InitEhVars
    /\ InitFmtVars
    /\ InitParVars
    /\ InitDmVars
    /\ InitCmpVars
    /\ InitRegVars
    /\ InitSrvVars
    /\ InitDsVars
    /\ InitCtrVars

SpecApp == Init /\ [][NextApp]_vars

SpecRes == Init /\ [][NextRes]_vars

SpecEH == Init /\ [][NextEH]_vars

SpecFmt == Init /\ [][NextFmt]_vars

SpecParser == Init /\ [][NextParser]_vars

SpecDM == Init /\ [][NextDM]_vars

SpecCompose == Init /\ [][NextCompose]_vars

SpecRules == Init /\ [][NextRules]_vars

SpecServe == Init /\ [][NextServe]_vars

SpecDataSet == Init /\ [][NextDataSet]_vars

SpecCounter == Init /\ [][NextCounter]_vars

====
